---- MODULE Spec2Model ----
(***************************************************************************)
(* A model of the resilient transport layer of the network SDK:            *)
(*   - HttpClient (src/core/http.ts): per-path auth headers, same-gateway  *)
(*     retry with linear backoff, multi-gateway failover with a health     *)
(*     cooldown, per-call abort timer;                                     *)
(*   - PathBasedAuthStrategy / ExponentialBackoffRetryPolicy;              *)
(*   - Subscription over WSClient (src/pubsub/client.ts, src/core/ws.ts).  *)
(*                                                                         *)
(* JavaScript runs one callback at a time, so every action below is the    *)
(* code that runs between two awaits.                                      *)
(***************************************************************************)
EXTENDS Integers, Sequences, FiniteSets, TLC

----------------------------------------------------------------------------
(* Bounds of the model *)

NumGateways == 3      \* configured base URLs
NumRequests == 2      \* request() calls in progress at once
MaxRetries == 1       \* config.maxRetries
MaxTicks == 1         \* clock steps
TickMs == 600000      \* milliseconds per clock step
NumHandlers == 2      \* handlers an application registers per kind
MaxFrames == 2        \* "message" events of a socket
MaxConnects == 2      \* connect() calls on one WSClient

(* Defaults of the HttpClient constructor *)

RetryDelayMs == 1000
GatewayHealthCheckCooldownMs == 600000

----------------------------------------------------------------------------
(* Values *)

Null == -1
Undefined == "undefined"

Gateways == 0 .. (NumGateways - 1)
Requests == 1 .. NumRequests

RetryableStatusCodes == {408, 429, 500, 502, 503, 504}

\* statuses the modelled gateways answer with
Statuses == {200, 404, 503}

\* error texts a gateway may put in the "error" field of an error body
BodyErrors == {Undefined, "failed to fetch row"}

\* error.message.includes('fetch')
IncludesFetch(message) == message \in {"failed to fetch row", "Failed to fetch", "Fetch is aborted"}

\* messages of the native error an aborted fetch rejects with; the text
\* differs between runtimes
AbortMessages == {"This operation was aborted", "Fetch is aborted"}

\* `HTTP ${status}` and `HTTP_${status}`
HttpMessage(status) == "HTTP " \o ToString(status)
HttpCode(status) == "HTTP_" \o ToString(status)

NoError == [kind |-> "none", message |-> "", httpStatus |-> Null, code |-> ""]

\* no call of a feature client has been made
NoCall == [op |-> "none", pc |-> "idle"]

\* new SDKError(message, httpStatus, code)
SDKError(message, httpStatus, code) ==
    [kind |-> "SDKError", message |-> message, httpStatus |-> httpStatus, code |-> code]

\* SDKError.fromResponse(status, body)
FromResponse(status, body) ==
    SDKError(IF body.error \notin {Undefined, ""} THEN body.error ELSE HttpMessage(status),
             status,
             IF body.code \notin {Undefined, ""} THEN body.code ELSE HttpCode(status))

\* the TypeError fetch rejects with when no response is received
FetchTypeError == [kind |-> "TypeError", message |-> "Failed to fetch", httpStatus |-> Null, code |-> ""]

\* the DOMException fetch rejects with when its signal is aborted
AbortError(message) == [kind |-> "AbortError", message |-> message, httpStatus |-> Null, code |-> ""]

----------------------------------------------------------------------------
(* State *)

VARIABLES
    \* HttpClient fields
    currentURLIndex,    \* index into baseURLs of the active gateway
    gatewayHealth,      \* gateway -> unhealthyUntil (Null or a timestamp)
    apiKey, jwt,        \* credentials held by the HttpClient
    \* PathBasedAuthStrategy fields
    strategyApiKey, strategyJwt,
    \* the AuthClient: currentApiKey, currentJwt, its storage, where a
    \* logout() in progress stands and the last call that has completed
    auth,
    \* the environment
    now,                \* Date.now()
    gwMode,             \* how each gateway answers: "ok", "retryable" or "any"
    \* one record per request() call in progress (locals of request /
    \* requestWithRetry, and bookkeeping about the call's history)
    req,
    \* the last failover that ended in success: <<from, to>>, or <<>>
    lastFailover,
    \* Subscription fields
    presenceOptions,    \* the presence options given to subscribe()
    messageHandlers,    \* Set<MessageHandler>, in insertion order
    errorHandlers,      \* Set<ErrorHandler>, in insertion order
    closeHandlers,      \* Set<CloseHandler>, in insertion order
    isClosed,           \* Subscription.isClosed
    ws,                 \* the WSClient: isClosed, the socket's readyState and
                        \* whether the Subscription's listeners are registered
    \* the callbacks invoked while the most recent socket event was handled
    dispatch,
    \* what each application handler does when it is called
    behaviour,
    \* the call of a feature client or of a variant of the HttpClient that is
    \* in progress or has settled last (CacheClient.get, getBinary, the
    \* request() of the client with onNetworkError)
    call

httpVars == <<currentURLIndex, gatewayHealth, now, gwMode, req, lastFailover>>
authVars == <<apiKey, jwt, strategyApiKey, strategyJwt, auth>>
subVars == <<presenceOptions, messageHandlers, errorHandlers, closeHandlers,
             isClosed, ws, dispatch, behaviour>>
vars == <<httpVars, authVars, subVars, call>>

\* each gateway answers every attempt the same way: with success, with a
\* retryable status, or not at all
FixedModes == [Gateways -> {"ok", "retryable", "down"}]
\* each gateway may answer each attempt in any way
AnyMode == [g \in Gateways |-> "any"]

IdleRequest ==
    [pc |-> "idle",                 \* idle | fetching | retryWait | failoverWait | returned | thrown
     url |-> Null,                  \* gateway the request URL points to
     currentGatewayUrl |-> Null,    \* local of requestWithRetry (line 370)
     attempt |-> 0,
     gatewayAttempt |-> 0,
     aborted |-> FALSE,             \* controller.signal.aborted
     timer |-> FALSE,               \* the abort timer is armed
     error |-> NoError,             \* the error caught / thrown
     \* history
     startGw |-> Null,              \* gateway of the first attempt
     tries |-> 0,                   \* fetch calls against url since it was chosen
     total |-> 0,                   \* fetch calls of this request() call
     delays |-> <<>>,               \* retry waits on the current gateway
     last |-> "none",               \* class of the last settled attempt
     onlyNetwork |-> TRUE,          \* every settled attempt was rejected without a response
     onlyFailing |-> TRUE,          \* ... or answered with a retryable status
     failedOn |-> {},               \* gateways an attempt of this call failed against
     from |-> Null]                 \* gateway the call failed over from, if it did

Active(r) == req[r].pc \in {"fetching", "retryWait", "failoverWait"}
Settled(r) == req[r].pc \in {"returned", "thrown"}

----------------------------------------------------------------------------
(* HttpClient: retry decision and backoff *)

\* isRetryableError (http.ts line 392)
IsRetryableError(error) ==
    error.kind = "SDKError" /\ error.httpStatus \in RetryableStatusCodes

\* isNetworkError (http.ts line 396); SDKError and the abort DOMException are
\* both instances of Error
IsNetworkError(error) ==
    \/ error.kind = "TypeError"
    \/ error.kind \in {"SDKError", "AbortError"} /\ IncludesFetch(error.message)

\* the condition of the same-gateway retry (http.ts line 401)
ShouldRetryMutant(error, attempt) ==
    IsRetryableError(error) /\ attempt <= MaxRetries

ShouldRetry(error, attempt) ==
    IsRetryableError(error) /\ attempt < MaxRetries

\* the wait before the retry that follows attempt number `attempt` (line 409)
RetryDelay(attempt) == RetryDelayMs * (attempt + 1)

\* the condition of the failover (http.ts line 415)
ShouldFailoverMutant(error, gatewayAttempt) ==
    (IsNetworkError(error) \/ IsRetryableError(error))
        /\ gatewayAttempt < NumGateways

ShouldFailover(error, gatewayAttempt) ==
    (IsNetworkError(error) \/ IsRetryableError(error))
        /\ gatewayAttempt < NumGateways - 1

----------------------------------------------------------------------------
(* HttpClient: gateway health *)

\* isGatewayHealthy: the value returned
IsGatewayHealthy(health, g) == health[g] = Null \/ now >= health[g]

\* isGatewayHealthy: the map after the call (an expired cooldown is cleared)
HealthAfterCheckMutant(health, g) == health

HealthAfterCheck(health, g) ==
    IF health[g] # Null /\ now >= health[g] THEN [health EXCEPT ![g] = Null] ELSE health

\* markGatewayUnhealthy
MarkGatewayUnhealthy(health, g) ==
    [health EXCEPT ![g] = now + GatewayHealthCheckCooldownMs]

\* findNextHealthyGateway: the while loop, from `attempts` on; yields the index
\* found (or -1) and the health map after the checks made on the way
RECURSIVE ScanGateways(_, _, _)
ScanGateways(health, startIndex, attempts) ==
    IF attempts >= NumGateways - 1
    THEN [index |-> -1, health |-> health]
    ELSE LET nextIndex == (startIndex + attempts + 1) % NumGateways
         IN IF IsGatewayHealthy(health, nextIndex)
            THEN [index |-> nextIndex, health |-> HealthAfterCheck(health, nextIndex)]
            ELSE ScanGateways(health, startIndex, attempts + 1)

FindNextHealthyGatewayMutant(health, current) ==
    ScanGateways(health, NumGateways - 1, 0)

FindNextHealthyGateway(health, current) ==
    IF NumGateways <= 1
    THEN [index |-> -1, health |-> health]
    ELSE ScanGateways(health, current, 0)

----------------------------------------------------------------------------
(* Credentials and per-path auth headers *)

\* values passed to setApiKey / setJwt
Credentials == {Undefined, "", "ak_live", "eyJ.jwt"}

\* if (value): undefined and the empty string are falsy
Truthy(value) == value \notin {Undefined, ""}

\* request paths, as the segments between their slashes: "/v1/rqlite/query"
\* is <<"v1", "rqlite", "query">>
Paths ==
    {<<"v1", "rqlite", "query">>, <<"v1", "pubsub", "publish">>,
     <<"v1", "proxy", "anon">>, <<"v1", "cache", "get">>,
     <<"v1", "auth", "whoami">>, <<"v1", "auth", "v1", "rqlite", "x">>,
     <<"v1", "storage", "upload">>, <<"v1", "rqlite">>, <<"v1", "status">>,
     <<"api", "v1", "cache", "scan">>}

\* path.includes("/v1/<name>/"): the segments v1 and <name> occur in a row
\* and a slash follows them
Includes(path, name) ==
    \E i \in 1 .. Len(path) - 2 : path[i] = "v1" /\ path[i + 1] = name

XApiKey(key) == <<"X-API-Key", key>>
Authorization(token) == <<"Authorization", "Bearer " \o token>>

\* HttpClient.getAuthHeaders, a variant that sends both credentials on
\* namespace paths
GetAuthHeadersMutant(path, key, token) ==
    (IF Truthy(token) THEN {Authorization(token)} ELSE {})
        \cup (IF Truthy(key) THEN {XApiKey(key)} ELSE {})

\* HttpClient.getAuthHeaders: the headers as a set of <<name, value>>
GetAuthHeaders(path, key, token) ==
    LET isDbOperation == Includes(path, "rqlite")
        isPubSubOperation == Includes(path, "pubsub")
        isProxyOperation == Includes(path, "proxy")
        isCacheOperation == Includes(path, "cache")
        isAuthOperation == Includes(path, "auth")
    IN IF isDbOperation \/ isPubSubOperation \/ isProxyOperation \/ isCacheOperation
       THEN IF Truthy(key) THEN {XApiKey(key)}
            ELSE IF Truthy(token) THEN {Authorization(token)}
            ELSE {}
       ELSE IF isAuthOperation
       THEN (IF Truthy(key) THEN {XApiKey(key)} ELSE {})
                \cup (IF Truthy(token) THEN {Authorization(token)} ELSE {})
       ELSE (IF Truthy(token) THEN {Authorization(token)} ELSE {})
                \cup (IF Truthy(key) THEN {XApiKey(key)} ELSE {})

\* PathBasedAuthStrategy.authRules
AuthRules ==
    <<[pattern |-> "rqlite", type |-> "api-key-only"],
      [pattern |-> "pubsub", type |-> "api-key-only"],
      [pattern |-> "proxy", type |-> "api-key-only"],
      [pattern |-> "cache", type |-> "api-key-only"],
      [pattern |-> "auth", type |-> "api-key-preferred"]>>

\* PathBasedAuthStrategy.detectAuthType: the first rule that matches
DetectAuthType(path) ==
    LET matching == {i \in DOMAIN AuthRules : Includes(path, AuthRules[i].pattern)}
    IN IF matching = {} THEN "both"
       ELSE AuthRules[CHOOSE i \in matching : \A j \in matching : i <= j].type

\* PathBasedAuthStrategy.getHeaders
StrategyGetHeaders(path, key, token) ==
    LET authType == DetectAuthType(path)
    IN CASE authType = "api-key-only" ->
              IF Truthy(key) THEN {XApiKey(key)}
              ELSE IF Truthy(token) THEN {Authorization(token)}
              ELSE {}
         [] authType = "api-key-preferred" ->
              (IF Truthy(key) THEN {XApiKey(key)} ELSE {})
                  \cup (IF Truthy(token) THEN {Authorization(token)} ELSE {})
         [] OTHER ->
              (IF Truthy(token) THEN {Authorization(token)} ELSE {})
                  \cup (IF Truthy(key) THEN {XApiKey(key)} ELSE {})

\* HttpClient.setApiKey / setJwt: the other credential is kept
SetApiKey(value) ==
    /\ apiKey' = value
    /\ UNCHANGED <<jwt, strategyApiKey, strategyJwt, auth, httpVars, subVars, call>>

SetJwt(value) ==
    /\ jwt' = value
    /\ UNCHANGED <<apiKey, strategyApiKey, strategyJwt, auth, httpVars, subVars, call>>

\* PathBasedAuthStrategy.setApiKey / setJwt
StrategySetApiKey(value) ==
    /\ strategyApiKey' = value
    /\ UNCHANGED <<apiKey, jwt, strategyJwt, auth, httpVars, subVars, call>>

StrategySetJwt(value) ==
    /\ strategyJwt' = value
    /\ UNCHANGED <<apiKey, jwt, strategyApiKey, auth, httpVars, subVars, call>>

\* HttpClient.getApiKey, getAuthToken / getToken (jwt || apiKey)
GetApiKey == apiKey
GetToken == IF Truthy(jwt) THEN jwt ELSE apiKey

----------------------------------------------------------------------------
(* AuthClient (src/auth/client.ts) over the HttpClient and a storage *)

\* new AuthClient({httpClient, storage, apiKey, jwt}) with an empty storage
NewAuthClient(key, token) ==
    [currentApiKey |-> key, currentJwt |-> token,
     storage |-> [apiKey |-> Undefined, jwt |-> Undefined],
     pc |-> "idle", call |-> "new", arg |-> Undefined]

\* the constructor hands a credential to the HttpClient only if it is truthy
AuthClientConstructed(key, token) ==
    /\ auth = NewAuthClient(key, token)
    /\ apiKey = IF Truthy(key) THEN key ELSE Undefined
    /\ jwt = IF Truthy(token) THEN token ELSE Undefined

\* AuthClient.getToken(): HttpClient.getToken()
AuthGetToken == GetToken

\* AuthClient.setApiKey / setJwt
AuthSetApiKey(value) ==
    /\ auth.pc = "idle"
    /\ auth' = [auth EXCEPT !.currentApiKey = value, !.storage.apiKey = value,
                            !.call = "setApiKey", !.arg = value]
    /\ apiKey' = value
    /\ UNCHANGED <<jwt, strategyApiKey, strategyJwt, httpVars, subVars, call>>

AuthSetJwt(value) ==
    /\ auth.pc = "idle"
    /\ auth' = [auth EXCEPT !.currentJwt = value, !.storage.jwt = value,
                            !.call = "setJwt", !.arg = value]
    /\ jwt' = value
    /\ UNCHANGED <<apiKey, strategyApiKey, strategyJwt, httpVars, subVars, call>>

\* logout() after the server-side request, and clear(): the local state is
\* cleared, then storage.clear() is awaited
Cleared(client) ==
    [client EXCEPT !.currentApiKey = Undefined, !.currentJwt = Undefined,
                   !.storage = [apiKey |-> Undefined, jwt |-> Undefined],
                   !.pc = "clearing"]

\* a variant that keeps the API key, as logoutUser() does
ClearHttpClientMutant ==
    /\ jwt' = Undefined
    /\ apiKey' = IF Truthy(auth.currentApiKey) THEN auth.currentApiKey ELSE apiKey

ClearHttpClient ==
    /\ apiKey' = Undefined
    /\ jwt' = Undefined

\* logout() up to its first await: with a JWT it posts /v1/auth/logout,
\* without one it clears at once
LogoutStart ==
    /\ auth.pc = "idle"
    /\ IF Truthy(auth.currentJwt)
       THEN /\ auth' = [auth EXCEPT !.pc = "posting", !.call = "logout", !.arg = "sent"]
            /\ UNCHANGED <<apiKey, jwt>>
       ELSE /\ auth' = [Cleared(auth) EXCEPT !.call = "logout", !.arg = "not sent"]
            /\ ClearHttpClient
    /\ UNCHANGED <<strategyApiKey, strategyJwt, httpVars, subVars, call>>

\* clear() up to its await
AuthClear ==
    /\ auth.pc = "idle"
    /\ auth' = [Cleared(auth) EXCEPT !.call = "clear", !.arg = Undefined]
    /\ ClearHttpClient
    /\ UNCHANGED <<strategyApiKey, strategyJwt, httpVars, subVars, call>>

\* the request has succeeded or failed; a failure is caught and logged
LogoutPosted(outcome) ==
    /\ auth.pc = "posting"
    /\ auth' = [Cleared(auth) EXCEPT !.arg = outcome]
    /\ ClearHttpClient
    /\ UNCHANGED <<strategyApiKey, strategyJwt, httpVars, subVars, call>>

\* logoutUser() after the server-side request: the JWT is cleared, the API
\* key is kept, loaded from the storage if the client holds none, and handed
\* to the HttpClient again
UserLoggedOut ==
    LET stored == auth.storage.apiKey
        key == IF ~Truthy(auth.currentApiKey) /\ Truthy(stored)
               THEN stored ELSE auth.currentApiKey
    IN /\ auth' = [auth EXCEPT !.currentJwt = Undefined, !.storage.jwt = "",
                               !.currentApiKey = key, !.pc = "clearing",
                               !.call = "logoutUser"]
       /\ jwt' = Undefined
       /\ apiKey' = IF Truthy(key) THEN key ELSE apiKey

\* logoutUser() up to its first await
LogoutUserStart ==
    /\ auth.pc = "idle"
    /\ IF Truthy(auth.currentJwt)
       THEN /\ auth' = [auth EXCEPT !.pc = "userPosting", !.call = "logoutUser",
                                    !.arg = "sent"]
            /\ UNCHANGED <<apiKey, jwt>>
       ELSE UserLoggedOut
    /\ UNCHANGED <<strategyApiKey, strategyJwt, httpVars, subVars, call>>

LogoutUserPosted ==
    /\ auth.pc = "userPosting"
    /\ UserLoggedOut
    /\ UNCHANGED <<strategyApiKey, strategyJwt, httpVars, subVars, call>>

\* the storage has settled: logout(), logoutUser() or clear() completes
LogoutDone ==
    /\ auth.pc = "clearing"
    /\ auth' = [auth EXCEPT !.pc = "idle"]
    /\ UNCHANGED <<apiKey, jwt, strategyApiKey, strategyJwt, httpVars, subVars, call>>

----------------------------------------------------------------------------
(* Subscription over a WSClient: frames, handlers and their dispatch *)

\* the handlers an application registers
Handlers == 1 .. NumHandlers

\* what a handler does when it is called: it returns, it throws, or it calls
\* close() on the subscription and returns.  The first handler may be one
\* that closes, the last one may be one that throws.
Behaviours ==
    {b \in [Handlers -> {"returns", "throws", "closes"}] :
        \A h \in Handlers :
            /\ b[h] = "closes" => h = 1
            /\ b[h] = "throws" => h = NumHandlers}
HandlerThrows(handler) == behaviour[handler] = "throws"
HandlerCloses(handler) == behaviour[handler] = "closes"

\* subscribe() keeps options.presence only when it is enabled
NoPresence == [enabled |-> FALSE, onJoin |-> Undefined, onLeave |-> Undefined]
PresenceOptionsSet ==
    {NoPresence} \cup
    {[enabled |-> TRUE, onJoin |-> j, onLeave |-> l] :
         j \in {Undefined, "returns"}, l \in {Undefined, "returns"}}

\* the text of an inbound frame: what JSON.parse makes of it ("invalid" when
\* it throws) and, for an object, the fields of the envelope.  A number field
\* that is absent is Null, any other absent field is Undefined.
NotAnEnvelope(json) ==
    [json |-> json, type |-> Undefined, member_id |-> Undefined,
     data |-> Undefined, topic |-> Undefined, timestamp |-> Null,
     meta |-> Undefined]

DataFrames ==
    [json : {"object"}, type : {Undefined}, member_id : {Undefined},
     data : {Undefined, "", "aGk=", "!!!"}, topic : {Undefined, "room"},
     timestamp : {Null, 1000}, meta : {Undefined}]

PresenceFrames ==
    [json : {"object"}, type : {"presence.join", "presence.leave"},
     member_id : {Undefined, "bob"}, data : {Undefined},
     topic : {Undefined, "room"}, timestamp : {Null, 1000},
     meta : {Undefined, "{role}"}]

Frames ==
    {NotAnEnvelope("invalid"), NotAnEnvelope("null")}
        \cup DataFrames \cup PresenceFrames

\* base64Decode: Buffer.from(b64, "base64") skips what is not base64, atob
\* throws on it; which of the two runs depends on the runtime
Base64Decode(b64) ==
    CASE b64 = "aGk=" -> {"hi"}
      [] b64 = "" -> {""}
      [] OTHER -> {"", "InvalidCharacterError"}

\* Set.add and Set.delete on a set kept in insertion order
SetAdd(set, handler) ==
    IF \E i \in DOMAIN set : set[i] = handler THEN set ELSE Append(set, handler)
SetDelete(set, handler) == SelectSeq(set, LAMBDA h : h # handler)

\* set.forEach((handler) => handler(arg)): the calls made, in order, whether
\* one of them threw (which ends the loop) and whether one of them called
\* close(), which clears the set, so that forEach visits no further entry
RECURSIVE ForEachMutant(_, _, _)
RECURSIVE ForEach(_, _, _)

\* forEach over a copy of the set: a handler that calls close() does not
\* end the loop
ForEachMutant(set, callback, arg) ==
    IF set = <<>> THEN [calls |-> <<>>, threw |-> FALSE, closed |-> FALSE]
    ELSE LET made == [callback |-> callback, handler |-> Head(set), arg |-> arg]
         IN IF HandlerThrows(Head(set))
            THEN [calls |-> <<made>>, threw |-> TRUE, closed |-> FALSE]
            ELSE LET rest == ForEachMutant(Tail(set), callback, arg)
                 IN [calls |-> <<made>> \o rest.calls, threw |-> rest.threw,
                     closed |-> rest.closed \/ HandlerCloses(Head(set))]

ForEach(set, callback, arg) ==
    IF set = <<>> THEN [calls |-> <<>>, threw |-> FALSE, closed |-> FALSE]
    ELSE LET made == [callback |-> callback, handler |-> Head(set), arg |-> arg]
         IN IF HandlerThrows(Head(set))
            THEN [calls |-> <<made>>, threw |-> TRUE, closed |-> FALSE]
            ELSE IF HandlerCloses(Head(set))
            THEN [calls |-> <<made>>, threw |-> FALSE, closed |-> TRUE]
            ELSE LET rest == ForEach(Tail(set), callback, arg)
                 IN [calls |-> <<made>> \o rest.calls, threw |-> rest.threw,
                     closed |-> rest.closed]

\* a presence callback of the options: called once if it is there
CallPresence(callback, how, arg) ==
    IF how = Undefined THEN [calls |-> <<>>, threw |-> FALSE, closed |-> FALSE]
    ELSE [calls |-> <<[callback |-> callback, handler |-> 0, arg |-> arg]>>,
          threw |-> how = "throws", closed |-> FALSE]

Threw == [calls |-> <<>>, threw |-> TRUE, closed |-> FALSE]
Returned == [calls |-> <<>>, threw |-> FALSE, closed |-> FALSE]

PresenceMember(envelope) ==
    [memberId |-> envelope.member_id, joinedAt |-> envelope.timestamp,
     meta |-> envelope.meta]

PubSubMessage(envelope, messageData) ==
    [topic |-> envelope.topic, data |-> messageData,
     timestamp |-> envelope.timestamp]

\* the try block of wsMessageHandler
TryBlock(envelope, messageData) ==
    IF envelope.json # "object" THEN Threw
    ELSE IF envelope.type \in {"presence.join", "presence.leave"}
    THEN IF ~Truthy(envelope.member_id) THEN Returned
         ELSE IF envelope.type = "presence.join" /\ presenceOptions.onJoin # Undefined
         THEN CallPresence("onJoin", presenceOptions.onJoin, PresenceMember(envelope))
         ELSE IF envelope.type = "presence.leave" /\ presenceOptions.onLeave # Undefined
         THEN CallPresence("onLeave", presenceOptions.onLeave, PresenceMember(envelope))
         ELSE Returned
    ELSE IF ~Truthy(envelope.data) THEN Threw
    ELSE IF ~Truthy(envelope.topic) THEN Threw
    ELSE IF envelope.timestamp = Null THEN Threw
    ELSE IF messageData = "InvalidCharacterError" THEN Threw
    ELSE ForEach(messageHandlers, "onMessage", PubSubMessage(envelope, messageData))

\* wsMessageHandler, a variant that handles each frame when the next arrives
WsMessageHandlerMutant(envelope, messageData) ==
    LET tried == TryBlock(dispatch.frame, messageData)
        caught == ForEach(errorHandlers, "onError", [error |-> TRUE])
    IN IF tried.threw
       THEN [calls |-> tried.calls \o caught.calls, uncaught |-> caught.threw,
             closed |-> caught.closed]
       ELSE [calls |-> tried.calls, uncaught |-> FALSE, closed |-> tried.closed]

\* wsMessageHandler: the try block and, if it threw, the catch block, which
\* hands the error to the error handlers; an error handler that throws lets
\* the exception escape
WsMessageHandler(envelope, messageData) ==
    LET tried == TryBlock(envelope, messageData)
        caught == ForEach(errorHandlers, "onError", [error |-> TRUE])
    IN IF tried.threw
       THEN [calls |-> tried.calls \o caught.calls, uncaught |-> caught.threw,
             closed |-> caught.closed]
       ELSE [calls |-> tried.calls, uncaught |-> FALSE, closed |-> tried.closed]

\* wsErrorHandler and wsCloseHandler
WsErrorHandler ==
    LET done == ForEach(errorHandlers, "onError", [error |-> TRUE])
    IN [calls |-> done.calls, uncaught |-> done.threw, closed |-> done.closed]

WsCloseHandler ==
    LET done == ForEach(closeHandlers, "onClose", [error |-> FALSE])
    IN [calls |-> done.calls, uncaught |-> done.threw, closed |-> done.closed]

NotHandled == [calls |-> <<>>, uncaught |-> FALSE, closed |-> FALSE]

\* nothing has been called: seq counts the "message" events so far, frame is
\* the text last handed to wsMessageHandler
NoDispatch == [event |-> "none", frame |-> NotAnEnvelope("invalid"),
               calls |-> <<>>, uncaught |-> FALSE, seq |-> 0, result |-> "",
               request |-> ""]

\* the record of an operation that runs no callback
Called(operation) == [NoDispatch EXCEPT !.event = operation, !.seq = dispatch.seq]

\* createClient: the WebSocket URL is config.wsConfig.wsURL or, without it,
\* the first base URL with its scheme replaced
PrimaryBaseURL == 0

CreateClientWsURL(configured) ==
    IF configured THEN [from |-> "wsConfig", gateway |-> Null]
    ELSE [from |-> "baseURL", gateway |-> PrimaryBaseURL]

\* token.startsWith("ak_")
StartsWithAk(token) == token \in {"ak_live"}

\* WSClient.buildWSUrl: the URL of the client and, if it has an auth token,
\* one query parameter with it
NoAuthParam == [name |-> Undefined, value |-> Undefined]

BuildWSUrl(wsURL, authToken) ==
    [wsURL |-> wsURL,
     auth |-> IF Truthy(authToken)
              THEN [name |-> IF StartsWithAk(authToken) THEN "api_key" ELSE "token",
                    value |-> authToken]
              ELSE NoAuthParam]

\* the WSClient after connect() has resolved
OpenClient ==
    [isClosed |-> FALSE, readyState |-> "OPEN", listening |-> FALSE,
     closes |-> 0, promise |-> "resolved", timer |-> FALSE, connects |-> 1,
     errorHandlers |-> <<>>, onNetworkError |-> FALSE, reason |-> NoError,
     wsURL |-> CreateClientWsURL(FALSE), authToken |-> Undefined,
     url |-> BuildWSUrl(CreateClientWsURL(FALSE), Undefined)]

\* the state subscribe() resolves with: the socket is open and the
\* Subscription has registered its listeners on the WSClient
Subscribed ==
    /\ messageHandlers = <<>>
    /\ errorHandlers = <<>>
    /\ closeHandlers = <<>>
    /\ isClosed = FALSE
    /\ ws = [OpenClient EXCEPT !.listening = TRUE]
    /\ dispatch = NoDispatch

\* Subscription.onMessage / onError / onClose and the functions they return
OnMessage(handler) ==
    /\ messageHandlers' = SetAdd(messageHandlers, handler)
    /\ dispatch' = Called("none")
    /\ UNCHANGED <<presenceOptions, errorHandlers, closeHandlers, isClosed, ws,
                   behaviour, httpVars, authVars, call>>

OffMessage(handler) ==
    /\ messageHandlers' = SetDelete(messageHandlers, handler)
    /\ dispatch' = Called("none")
    /\ UNCHANGED <<presenceOptions, errorHandlers, closeHandlers, isClosed, ws,
                   behaviour, httpVars, authVars, call>>

OnError(handler) ==
    /\ errorHandlers' = SetAdd(errorHandlers, handler)
    /\ dispatch' = Called("none")
    /\ UNCHANGED <<presenceOptions, messageHandlers, closeHandlers, isClosed, ws,
                   behaviour, httpVars, authVars, call>>

OffError(handler) ==
    /\ errorHandlers' = SetDelete(errorHandlers, handler)
    /\ dispatch' = Called("none")
    /\ UNCHANGED <<presenceOptions, messageHandlers, closeHandlers, isClosed, ws,
                   behaviour, httpVars, authVars, call>>

OnClose(handler) ==
    /\ closeHandlers' = SetAdd(closeHandlers, handler)
    /\ dispatch' = Called("none")
    /\ UNCHANGED <<presenceOptions, messageHandlers, errorHandlers, isClosed, ws,
                   behaviour, httpVars, authVars, call>>

OffClose(handler) ==
    /\ closeHandlers' = SetDelete(closeHandlers, handler)
    /\ dispatch' = Called("none")
    /\ UNCHANGED <<presenceOptions, messageHandlers, errorHandlers, isClosed, ws,
                   behaviour, httpVars, authVars, call>>

\* WSClient.close(): closes the socket unless the client is closed already
\* (closes counts the calls of the socket's close())
WsClientCloseMutant(client) ==
    [client EXCEPT !.isClosed = TRUE, !.closes = @ + 1,
                   !.readyState = IF @ \in {"CONNECTING", "OPEN"} THEN "CLOSING" ELSE @]

WsClientClose(client) ==
    IF client.isClosed THEN client
    ELSE [client EXCEPT !.isClosed = TRUE, !.closes = @ + 1,
                        !.readyState = IF @ \in {"CONNECTING", "OPEN"}
                                       THEN "CLOSING" ELSE @]

\* close() that leaves its listeners on the WSClient and keeps the handlers
DoCloseMutant(client) ==
    /\ isClosed' = TRUE
    /\ UNCHANGED <<messageHandlers, errorHandlers, closeHandlers>>
    /\ ws' = WsClientClose(client)

\* the body of Subscription.close() after its guard: unregisters from the
\* WSClient, clears the handler sets and closes the WSClient
DoClose(client) ==
    /\ isClosed' = TRUE
    /\ messageHandlers' = <<>>
    /\ errorHandlers' = <<>>
    /\ closeHandlers' = <<>>
    /\ ws' = [WsClientClose(client) EXCEPT !.listening = FALSE]

\* a socket event has been handled: what was called is recorded, and a
\* handler that called close() has closed the subscription
Handled(event, frame, done, client, seq) ==
    /\ dispatch' = [event |-> event, frame |-> frame, calls |-> done.calls,
                    uncaught |-> done.uncaught, seq |-> seq, result |-> "",
                    request |-> ""]
    /\ IF done.closed
       THEN DoClose(client)
       ELSE /\ ws' = client
            /\ UNCHANGED <<isClosed, messageHandlers, errorHandlers, closeHandlers>>
    /\ UNCHANGED <<presenceOptions, behaviour, httpVars, authVars, call>>

\* the socket's "message" event: WSClient hands the text to its message
\* handlers, the Subscription's wsMessageHandler among them until close().
\* A socket that is closing may or may not deliver what still arrives.
Deliver(frame) ==
    /\ ws.readyState \in {"OPEN", "CLOSING"}
    /\ dispatch.seq < MaxFrames
    /\ IF ws.listening
       THEN \E messageData \in Base64Decode(frame.data) :
                Handled("message", frame, WsMessageHandler(frame, messageData),
                        ws, dispatch.seq + 1)
       ELSE Handled("message", NotAnEnvelope("invalid"), NotHandled,
                    ws, dispatch.seq + 1)

\* the socket's "error" event: WSClient calls its error handlers, the
\* Subscription's wsErrorHandler among them until close()
SocketError ==
    /\ ws.readyState \in {"OPEN", "CLOSING"}
    /\ Handled("error", NotAnEnvelope("invalid"),
               IF ws.listening THEN WsErrorHandler ELSE NotHandled,
               ws, dispatch.seq)

\* the socket's "close" event: WSClient calls its close handlers, the
\* Subscription's wsCloseHandler among them until close()
SocketClose ==
    /\ ws.readyState \in {"OPEN", "CLOSING"}
    /\ Handled("close", NotAnEnvelope("invalid"),
               IF ws.listening THEN WsCloseHandler ELSE NotHandled,
               [ws EXCEPT !.readyState = "CLOSED"], dispatch.seq)

\* WSClient.isConnected() and Subscription.isConnected()
WsIsConnected == ~ws.isClosed /\ ws.readyState = "OPEN"
IsConnected == ~isClosed /\ WsIsConnected

\* Subscription.hasPresence(): !!this.presenceOptions?.enabled
HasPresenceMutant == TRUE

HasPresence == presenceOptions.enabled

\* what the promise of Subscription.getPresence() settles with: without
\* presence it rejects before getPresenceFn is called; with presence it
\* calls getPresenceFn, which sends GET /v1/pubsub/presence and gives the
\* members or the error of that request
PresenceNotEnabled == "Presence is not enabled for this subscription"

GetPresence ==
    /\ IF ~HasPresence
       THEN dispatch' = [Called("getPresence()") EXCEPT !.result = PresenceNotEnabled]
       ELSE \E outcome \in {"members", "SDKError"} :
                dispatch' = [Called("getPresence()") EXCEPT
                                !.request = "/v1/pubsub/presence",
                                !.result = outcome]
    /\ UNCHANGED <<presenceOptions, messageHandlers, errorHandlers, closeHandlers,
                   isClosed, ws, behaviour, httpVars, authVars, call>>

\* the guard of Subscription.close()
CloseReturnsMutant == FALSE

CloseReturns == isClosed

\* Subscription.close()
Close ==
    /\ IF CloseReturns
       THEN UNCHANGED <<isClosed, messageHandlers, errorHandlers, closeHandlers, ws>>
       ELSE DoClose(ws)
    /\ dispatch' = Called("close()")
    /\ UNCHANGED <<presenceOptions, behaviour, httpVars, authVars, call>>

----------------------------------------------------------------------------
(* A WSClient on its own (src/core/ws.ts): connect(), the connection timeout,
   the socket's listeners, onError / offError and close() *)

\* new WSClient(config): no socket yet; config.onNetworkError may be set
NewClient(callback) ==
    [isClosed |-> FALSE, readyState |-> "NONE", listening |-> FALSE,
     closes |-> 0, promise |-> "none", timer |-> FALSE, connects |-> 0,
     errorHandlers |-> <<>>, onNetworkError |-> callback, reason |-> NoError,
     wsURL |-> CreateClientWsURL(FALSE), authToken |-> Undefined,
     url |-> BuildWSUrl(CreateClientWsURL(FALSE), Undefined)]

WsTimeoutError == SDKError("WebSocket connection timeout", 408, "WS_TIMEOUT")
WsError == SDKError("WebSocket error", 500, "WS_ERROR")

\* resolve() / reject(error) of the promise connect() returned: a promise
\* settles once
Resolve(client) ==
    IF client.promise = "pending" THEN [client EXCEPT !.promise = "resolved"]
    ELSE client
Reject(client, error) ==
    IF client.promise = "pending"
    THEN [client EXCEPT !.promise = "rejected", !.reason = error]
    ELSE client

\* if (this.onNetworkError) this.onNetworkError(error, context)
CallOnNetworkError(client, error) ==
    IF client.onNetworkError
    THEN <<[callback |-> "onNetworkError", handler |-> 0, arg |-> error]>>
    ELSE <<>>

\* this.ws?.close() on the socket
SocketCloseCall(client) ==
    [client EXCEPT !.closes = @ + 1,
                   !.readyState = IF @ \in {"CONNECTING", "OPEN"}
                                  THEN "CLOSING" ELSE @]

\* what a WSClient step leaves alone
ClientStep(event, calls, uncaught) ==
    /\ dispatch' = [event |-> event, frame |-> NotAnEnvelope("invalid"),
                    calls |-> calls, uncaught |-> uncaught, seq |-> dispatch.seq,
                    result |-> "", request |-> ""]
    /\ UNCHANGED <<presenceOptions, messageHandlers, errorHandlers,
                   closeHandlers, isClosed, behaviour, httpVars, authVars, call>>

\* WSClient.connect() up to its return: a new socket replaces this.ws,
\* isClosed is reset and the timeout is armed.  The caller connects when
\* the client has no socket or its socket has closed.
ClientConnect ==
    /\ ws.readyState \in {"NONE", "CLOSED"}
    /\ ws.connects < MaxConnects
    /\ ws' = [ws EXCEPT !.isClosed = FALSE, !.readyState = "CONNECTING",
                        !.promise = "pending", !.reason = NoError,
                        !.timer = TRUE, !.connects = @ + 1,
                        !.url = BuildWSUrl(ws.wsURL, ws.authToken)]
    /\ ClientStep("connect()", <<>>, FALSE)

\* the "open" listener
ClientOpen ==
    /\ ws.readyState = "CONNECTING"
    /\ ws' = Resolve([ws EXCEPT !.readyState = "OPEN", !.timer = FALSE])
    /\ ClientStep("open", <<>>, FALSE)

\* the setTimeout callback of connect()
ClientTimeout ==
    /\ ws.timer
    /\ ws' = Reject([SocketCloseCall(ws) EXCEPT !.timer = FALSE], WsTimeoutError)
    /\ ClientStep("timeout", CallOnNetworkError(ws, WsTimeoutError), FALSE)

\* the "error" listener: an error handler that throws keeps reject() from
\* running
ClientError ==
    /\ ws.readyState \in {"CONNECTING", "OPEN", "CLOSING"}
    /\ LET done == ForEach(ws.errorHandlers, "onError", WsError)
           cleared == [ws EXCEPT !.timer = FALSE]
       IN /\ ws' = IF done.threw THEN cleared ELSE Reject(cleared, WsError)
          /\ ClientStep("error", CallOnNetworkError(ws, WsError) \o done.calls,
                        done.threw)

\* the "close" listener
ClientClosed ==
    /\ ws.readyState \in {"CONNECTING", "OPEN", "CLOSING"}
    /\ ws' = [ws EXCEPT !.readyState = "CLOSED", !.timer = FALSE]
    /\ ClientStep("close", <<>>, FALSE)

\* WSClient.onError / offError
ClientOnError(handler) ==
    /\ ws' = [ws EXCEPT !.errorHandlers = SetAdd(@, handler)]
    /\ ClientStep("none", <<>>, FALSE)

ClientOffError(handler) ==
    /\ ws' = [ws EXCEPT !.errorHandlers = SetDelete(@, handler)]
    /\ ClientStep("none", <<>>, FALSE)

\* WSClient.close() called by the application
ClientClose ==
    /\ ws' = WsClientClose(ws)
    /\ ClientStep("close()", <<>>, FALSE)

----------------------------------------------------------------------------
(* PubSubClient.subscribe (src/pubsub/client.ts) *)

\* the URL subscribe() gives the WSClient: this.wsConfig.wsURL, which
\* createClient has set
SubscribeWsURLMutant(configured) ==
    IF configured THEN [from |-> "wsConfig", gateway |-> Null]
    ELSE [from |-> "baseURL", gateway |-> currentURLIndex]

SubscribeWsURL(configured) == CreateClientWsURL(configured)

\* the auth token subscribe() gives the WSClient:
\* this.httpClient.getApiKey() ?? this.httpClient.getToken()
SubscribeAuthTokenMutant == IF Truthy(GetToken) THEN GetToken ELSE GetApiKey

SubscribeAuthToken == IF GetApiKey # Undefined THEN GetApiKey ELSE GetToken

\* subscribe() up to await wsClient.connect(): a new WSClient connects.
\* The application subscribes when it holds no subscription whose socket
\* is still there.
PubSubSubscribe(configured, presence) ==
    /\ ws.readyState \in {"NONE", "CLOSED"}
    /\ ws.connects < MaxConnects
    /\ LET wsURL == SubscribeWsURL(configured)
           authToken == SubscribeAuthToken
       IN ws' = [NewClient(FALSE) EXCEPT
                    !.wsURL = wsURL, !.authToken = authToken,
                    !.url = BuildWSUrl(wsURL, authToken),
                    !.readyState = "CONNECTING", !.promise = "pending",
                    !.timer = TRUE, !.connects = ws.connects + 1]
    /\ presenceOptions' = presence
    /\ messageHandlers' = <<>>
    /\ errorHandlers' = <<>>
    /\ closeHandlers' = <<>>
    /\ isClosed' = FALSE
    /\ dispatch' = Called("subscribe()")
    /\ UNCHANGED <<behaviour, httpVars, authVars, call>>

\* the "open" listener and the rest of subscribe(), which runs when
\* connect() resolves: the Subscription registers its listeners
SubscribeOpened ==
    /\ ws.readyState = "CONNECTING"
    /\ ws' = [Resolve([ws EXCEPT !.readyState = "OPEN", !.timer = FALSE])
                 EXCEPT !.listening = TRUE]
    /\ ClientStep("open", <<>>, FALSE)

----------------------------------------------------------------------------
(* The injected fetch: what an attempt can settle with *)

ErrorBodies == {[error |-> e, code |-> Undefined] : e \in BodyErrors}

OkResponse == [kind |-> "response", status |-> 200, body |-> [error |-> Undefined, code |-> Undefined]]
ErrorResponses ==
    {[kind |-> "response", status |-> st, body |-> b] : st \in Statuses \ {200}, b \in ErrorBodies}
RetryableResponses == {resp \in ErrorResponses : resp.status \in RetryableStatusCodes}
Rejection == [kind |-> "reject", status |-> Null, body |-> [error |-> Undefined, code |-> Undefined]]
Aborts(message) == [kind |-> "abort", status |-> Null, body |-> [error |-> message, code |-> Undefined]]
\* how a gateway answers /v1/cache/get for a key that is absent: 404, or 500
\* with the message of the cache
MissResponses ==
    {[kind |-> "response", status |-> st, body |-> [error |-> "key not found", code |-> Undefined]] :
        st \in {404, 500}}

\* what fetch can settle with for a request sent to gateway g
Settlements(g, aborted) ==
    IF aborted THEN {Aborts(m) : m \in AbortMessages}
    ELSE CASE gwMode[g] = "ok" -> {OkResponse}
           [] gwMode[g] = "retryable" -> RetryableResponses
           [] gwMode[g] = "down" -> {Rejection}
           [] gwMode[g] = "miss" -> MissResponses
           [] OTHER -> {OkResponse, Rejection} \cup ErrorResponses

\* the error the try block of requestWithRetry throws for a settlement
ErrorOf(resp) ==
    CASE resp.kind = "response" -> FromResponse(resp.status, resp.body)
      [] resp.kind = "reject" -> FetchTypeError
      [] OTHER -> AbortError(resp.body.error)

\* the class of a settlement
ClassOf(resp) ==
    CASE resp.kind = "abort" -> "abort"
      [] resp.kind = "reject" -> "network"
      [] resp.status = 200 -> "ok"
      [] resp.status \in RetryableStatusCodes -> "retryable"
      [] OTHER -> "terminal"

----------------------------------------------------------------------------
(* HttpClient.request / requestWithRetry *)

\* request(): builds the URL from the active gateway, arms the abort timer and
\* enters requestWithRetry, which reads the active gateway and calls fetch
Start(r) ==
    /\ req[r].pc \in {"idle", "returned", "thrown"}
    /\ req' = [req EXCEPT ![r] =
                 [IdleRequest EXCEPT !.pc = "fetching",
                                     !.url = currentURLIndex,
                                     !.currentGatewayUrl = currentURLIndex,
                                     !.timer = TRUE,
                                     !.startGw = currentURLIndex,
                                     !.tries = 1,
                                     !.total = 1]]
    /\ UNCHANGED <<currentURLIndex, gatewayHealth, now, gwMode, lastFailover, authVars, subVars, call>>

\* the record of the call after an attempt settled with resp
Noted(r, resp) ==
    [req[r] EXCEPT !.last = ClassOf(resp),
                   !.onlyNetwork = @ /\ ClassOf(resp) = "network",
                   !.onlyFailing = @ /\ ClassOf(resp) \in {"network", "retryable"},
                   !.failedOn = IF ClassOf(resp) = "ok" THEN @ ELSE @ \cup {req[r].url}]

\* lastFailover after an attempt of r settled with resp
FailoverNoted(r, resp) ==
    IF ClassOf(resp) = "ok"
    THEN IF req[r].from # Null THEN <<req[r].from, req[r].url>> ELSE lastFailover
    ELSE IF lastFailover # <<>> /\ lastFailover[2] = req[r].url THEN <<>> ELSE lastFailover

\* the fetch resolves with a 2xx response: request() returns, its finally
\* block clears the timer
Succeed(r, resp) ==
    /\ req' = [req EXCEPT ![r] = [Noted(r, resp) EXCEPT !.pc = "returned", !.timer = FALSE,
                                        !.currentGatewayUrl = Null, !.gatewayAttempt = 0,
                                        !.aborted = FALSE, !.failedOn = {}, !.from = Null]]
    /\ UNCHANGED <<currentURLIndex, gatewayHealth>>

\* catch block, first branch: wait, then retry on the same gateway
Retry(r, resp) ==
    /\ req' = [req EXCEPT ![r] =
                 [Noted(r, resp) EXCEPT !.pc = "retryWait",
                                        !.delays = Append(@, RetryDelay(req[r].attempt))]]
    /\ UNCHANGED <<currentURLIndex, gatewayHealth>>

\* catch block, last line: the error propagates through request(), whose
\* finally block clears the timer
Throw(r, resp, health) ==
    /\ req' = [req EXCEPT ![r] =
                 [Noted(r, resp) EXCEPT !.pc = "thrown", !.timer = FALSE, !.error = ErrorOf(resp),
                                        !.currentGatewayUrl = Null, !.gatewayAttempt = 0,
                                        !.aborted = FALSE, !.failedOn = {}, !.from = Null]]
    /\ gatewayHealth' = health
    /\ UNCHANGED currentURLIndex

\* catch block, second branch: mark the gateway read at entry unhealthy and
\* move to the next healthy one; if there is none the error is thrown
Failover(r, resp) ==
    LET marked == MarkGatewayUnhealthy(gatewayHealth, req[r].currentGatewayUrl)
        next == FindNextHealthyGateway(marked, currentURLIndex)
    IN IF next.index # -1
       THEN /\ currentURLIndex' = next.index
            /\ gatewayHealth' = next.health
            /\ req' = [req EXCEPT ![r] =
                         [Noted(r, resp) EXCEPT !.pc = "failoverWait",
                                                !.from = req[r].url,
                                                !.url = next.index]]
       ELSE Throw(r, resp, next.health)

\* the fetch of r settles and requestWithRetry handles the outcome
Respond(r) ==
    /\ req[r].pc = "fetching"
    /\ \E resp \in Settlements(req[r].url, req[r].aborted) :
         /\ lastFailover' = FailoverNoted(r, resp)
         /\ IF ClassOf(resp) = "ok" THEN Succeed(r, resp)
            ELSE IF ShouldRetry(ErrorOf(resp), req[r].attempt) THEN Retry(r, resp)
            ELSE IF ShouldFailover(ErrorOf(resp), req[r].gatewayAttempt) THEN Failover(r, resp)
            ELSE Throw(r, resp, gatewayHealth)
    /\ UNCHANGED <<now, gwMode, authVars, subVars, call>>

\* the wait ends and requestWithRetry is entered again: it reads the active
\* gateway and calls fetch with the URL it was given
Wake(r) ==
    /\ req[r].pc \in {"retryWait", "failoverWait"}
    /\ req' = [req EXCEPT ![r] =
                 IF req[r].pc = "retryWait"
                 THEN [@ EXCEPT !.pc = "fetching",
                                !.currentGatewayUrl = currentURLIndex,
                                !.attempt = @ + 1,
                                !.tries = @ + 1,
                                !.total = @ + 1]
                 ELSE [@ EXCEPT !.pc = "fetching",
                                !.currentGatewayUrl = currentURLIndex,
                                !.attempt = 0,
                                !.gatewayAttempt = @ + 1,
                                !.tries = 1,
                                !.delays = <<>>,
                                !.total = @ + 1]]
    /\ UNCHANGED <<currentURLIndex, gatewayHealth, now, gwMode, lastFailover, authVars, subVars, call>>

\* the abort timer of request() fires: controller.abort()
AbortTimer(r) ==
    /\ Active(r)
    /\ req[r].timer
    /\ req' = [req EXCEPT ![r].timer = FALSE, ![r].aborted = TRUE]
    /\ UNCHANGED <<currentURLIndex, gatewayHealth, now, gwMode, lastFailover, authVars, subVars, call>>

\* the wall clock advances
Tick ==
    /\ now < MaxTicks * TickMs
    /\ now' = now + TickMs
    /\ UNCHANGED <<currentURLIndex, gatewayHealth, gwMode, req, lastFailover, authVars, subVars, call>>

\* the wall clock advances by half a cooldown
ShortTick ==
    /\ now + (TickMs \div 2) <= MaxTicks * TickMs
    /\ now' = now + (TickMs \div 2)
    /\ UNCHANGED <<currentURLIndex, gatewayHealth, gwMode, req, lastFailover, authVars, subVars, call>>

----------------------------------------------------------------------------
(* Error responses as a gateway sends them, and CacheClient.get *)

\* a response that is not ok: its status and status text (empty over
\* HTTP/2), and what response.json() makes of its body: an object with the
\* fields error and code, null, or a rejection when the body is no JSON
ErrorStatuses == {404, 500, 503}
StatusTexts == {"", "Status Text"}
ErrorTexts == {Undefined, "", "key not found", "Cache: Key Not Found", "internal error"}
ErrorCodes == {Undefined, "", "NOT_FOUND"}

RawResponses ==
    [status : ErrorStatuses, statusText : StatusTexts, json : {"object"},
     error : ErrorTexts, code : ErrorCodes]
    \cup [status : ErrorStatuses, statusText : StatusTexts, json : {"null", "invalid"},
          error : {Undefined}, code : {Undefined}]

\* the body requestWithRetry hands to SDKError.fromResponse:
\* try { body = await response.json() } catch { body = {error: statusText} }
ParseErrorBody(response) ==
    IF response.json = "invalid"
    THEN [error |-> response.statusText, code |-> Undefined]
    ELSE [error |-> response.error, code |-> response.code]

\* the error requestWithRetry throws for a response that is not ok
ResponseError(response) == FromResponse(response.status, ParseErrorBody(response))

\* request() rejects with the error of a response that is not ok
ThrowFromResponse(response) ==
    /\ call' = [op |-> "request", pc |-> "thrown", response |-> response,
                error |-> ResponseError(response)]
    /\ UNCHANGED <<httpVars, authVars, subVars>>

\* message.toLowerCase().includes("key not found")
ToLowerCase(message) ==
    IF message = "Cache: Key Not Found" THEN "cache: key not found" ELSE message
IncludesKeyNotFound(message) == message \in {"key not found", "cache: key not found"}

\* what httpClient.post settles with inside CacheClient.get
PostOutcomes ==
    {[kind |-> "returned", error |-> NoError]}
    \cup {[kind |-> "thrown", error |-> ResponseError(response)] : response \in RawResponses}
    \cup {[kind |-> "thrown", error |-> FetchTypeError]}
    \cup {[kind |-> "thrown", error |-> AbortError(m)] : m \in AbortMessages}
    \cup {[kind |-> "thrown", error |-> SDKError("key not found", 0, "NETWORK_ERROR")]}

\* the catch block of CacheClient.get: is the error a cache miss
IsCacheMissMutant(error) ==
    error.kind = "SDKError" /\ error.httpStatus = 404

IsCacheMiss(error) ==
    /\ error.kind = "SDKError"
    /\ \/ error.httpStatus = 404
       \/ /\ error.httpStatus = 500
          /\ IncludesKeyNotFound(ToLowerCase(error.message))

\* CacheClient.get: the value, null, or the error thrown again
CacheGet(outcome) ==
    IF outcome.kind = "returned" THEN [kind |-> "value", error |-> NoError]
    ELSE IF IsCacheMiss(outcome.error) THEN [kind |-> "null", error |-> NoError]
    ELSE [kind |-> "throw", error |-> outcome.error]

CacheGetCall(outcome) ==
    /\ call' = [op |-> "cache.get", pc |-> "settled", outcome |-> outcome,
                result |-> CacheGet(outcome)]
    /\ UNCHANGED <<httpVars, authVars, subVars>>

\* CacheClient.get up to its await: httpClient.post("/v1/cache/get") enters
\* request(), which builds the URL on the active gateway, arms the timer and
\* calls fetch; the call notes the health map and the active gateway it found
CacheGetStart(r) ==
    /\ req[r].pc \in {"idle", "returned", "thrown"}
    /\ \A q \in Requests : ~Active(q)
    /\ req' = [req EXCEPT ![r] =
                 [IdleRequest EXCEPT !.pc = "fetching",
                                     !.url = currentURLIndex,
                                     !.currentGatewayUrl = currentURLIndex,
                                     !.timer = TRUE,
                                     !.startGw = currentURLIndex,
                                     !.tries = 1,
                                     !.total = 1]]
    /\ call' = [op |-> "cache.get", pc |-> "awaiting", slot |-> r,
                outcome |-> [kind |-> "none", error |-> NoError],
                result |-> [kind |-> "none", error |-> NoError],
                attempts |-> 0, health |-> gatewayHealth, index |-> currentURLIndex]
    /\ UNCHANGED <<currentURLIndex, gatewayHealth, now, gwMode, lastFailover, authVars, subVars>>

\* CacheClient.get after its await: the value post returned, or the catch
\* block on the error post threw
CacheGetSettle(r) ==
    /\ call.op = "cache.get" /\ call.pc = "awaiting" /\ call.slot = r
    /\ Settled(r)
    /\ LET outcome == [kind |-> req[r].pc,
                       error |-> IF req[r].pc = "thrown" THEN req[r].error ELSE NoError]
       IN call' = [call EXCEPT !.pc = "settled", !.outcome = outcome,
                               !.result = CacheGet(outcome),
                               !.attempts = req[r].total]
    /\ UNCHANGED <<httpVars, authVars, subVars>>

----------------------------------------------------------------------------
(* HttpClient.getBinary *)

\* getBinary up to await this.fetch: the URL is built on the active gateway
\* and the abort timer is armed
GetBinaryStart ==
    /\ call.op # "getBinary" \/ call.pc # "fetching"
    /\ call' = [op |-> "getBinary", pc |-> "fetching", url |-> currentURLIndex,
                attempts |-> 1, aborted |-> FALSE, timer |-> TRUE, error |-> NoError]
    /\ UNCHANGED <<httpVars, authVars, subVars>>

\* the abort timer of getBinary fires, if nothing has cleared it
GetBinaryAbortTimer ==
    /\ call.op = "getBinary" /\ call.pc # "idle" /\ call.timer
    /\ call' = [call EXCEPT !.aborted = TRUE, !.timer = FALSE]
    /\ UNCHANGED <<httpVars, authVars, subVars>>

\* fetch settles: the response is returned if it is ok; otherwise the timer
\* is cleared and the error is thrown
GetBinaryRespond ==
    /\ call.op = "getBinary" /\ call.pc = "fetching"
    /\ \E resp \in Settlements(call.url, call.aborted) :
          call' = IF ClassOf(resp) = "ok"
                  THEN [call EXCEPT !.pc = "returned"]
                  ELSE [call EXCEPT !.pc = "thrown", !.timer = FALSE,
                                    !.error = ErrorOf(resp)]
    /\ UNCHANGED <<httpVars, authVars, subVars>>

----------------------------------------------------------------------------
(* The HttpClient with one base URL and onNetworkError *)

\* the error handed to onNetworkError: a native error is converted
CallbackError(error) ==
    IF error.kind = "SDKError" THEN error
    ELSE SDKError(error.message, 0, "NETWORK_ERROR")

\* request() up to await this.fetch
CallbackStart(configured) ==
    /\ call.op # "request()" \/ call.pc \in {"returned", "thrown"}
    /\ call' = [op |-> "request()", pc |-> "fetching", attempt |-> 0,
                aborted |-> FALSE, error |-> NoError, onNetworkError |-> configured,
                callbacks |-> <<>>]
    /\ UNCHANGED <<httpVars, authVars, subVars>>

CallbackAbortTimer ==
    /\ call.op = "request()" /\ call.pc \in {"fetching", "retryWait"} /\ ~call.aborted
    /\ call' = [call EXCEPT !.aborted = TRUE]
    /\ UNCHANGED <<httpVars, authVars, subVars>>

\* fetch settles: requestWithRetry returns, waits for a retry or throws, and
\* the catch block of request() calls onNetworkError before it throws again
CallbackRespond ==
    /\ call.op = "request()" /\ call.pc = "fetching"
    /\ \E resp \in Settlements(PrimaryBaseURL, call.aborted) :
          call' = IF ClassOf(resp) = "ok"
                  THEN [call EXCEPT !.pc = "returned"]
                  ELSE IF ShouldRetry(ErrorOf(resp), call.attempt)
                  THEN [call EXCEPT !.pc = "retryWait", !.error = ErrorOf(resp)]
                  ELSE [call EXCEPT !.pc = "thrown", !.error = ErrorOf(resp),
                                    !.callbacks =
                                        IF call.onNetworkError
                                        THEN <<[error |-> CallbackError(ErrorOf(resp)),
                                                attempt |-> MaxRetries]>>
                                        ELSE <<>>]
    /\ UNCHANGED <<httpVars, authVars, subVars>>

\* the wait before the retry ends
CallbackWake ==
    /\ call.op = "request()" /\ call.pc = "retryWait"
    /\ call' = [call EXCEPT !.pc = "fetching", !.attempt = @ + 1]
    /\ UNCHANGED <<httpVars, authVars, subVars>>

----------------------------------------------------------------------------
(* ExponentialBackoffRetryPolicy (core/transport/RequestRetryPolicy.ts),
   constructed with the maxRetries and the base delay of the HttpClient *)

\* the statuses of the errors the policy is asked about
PolicyStatuses == RetryableStatusCodes \cup {400, 404, 501}

\* the errors the policy is asked about: SDKErrors of responses, the
\* TypeError of a rejected fetch, the abort error
PolicyErrors ==
    {FromResponse(status, body) : status \in PolicyStatuses, body \in ErrorBodies}
        \cup {FetchTypeError} \cup {AbortError(message) : message \in AbortMessages}

\* the attempt indices the policy is asked about: below, at and above
\* maxRetries
PolicyAttempts == 0 .. (MaxRetries + 3)

\* shouldRetry(error, attempt)
ShouldRetryPolicyMutant(error, attempt) ==
    IF attempt > MaxRetries THEN FALSE
    ELSE IF error.kind = "SDKError" THEN error.httpStatus \in RetryableStatusCodes
    ELSE FALSE

ShouldRetryPolicy(error, attempt) ==
    IF attempt >= MaxRetries THEN FALSE
    ELSE IF error.kind = "SDKError" THEN error.httpStatus \in RetryableStatusCodes
    ELSE FALSE

\* getDelay(attempt)
GetDelay(attempt) == RetryDelayMs * (attempt + 1)

\* a caller asks the policy whether to retry
PolicyShouldRetry(error, attempt) ==
    /\ call' = [op |-> "shouldRetry", pc |-> "settled", error |-> error,
                attempt |-> attempt, result |-> ShouldRetryPolicy(error, attempt)]
    /\ UNCHANGED <<httpVars, authVars, subVars>>

\* a caller asks the policy how long to wait
PolicyGetDelay(attempt) ==
    /\ call' = [op |-> "getDelay", pc |-> "settled", error |-> NoError,
                attempt |-> attempt, result |-> GetDelay(attempt)]
    /\ UNCHANGED <<httpVars, authVars, subVars>>

----------------------------------------------------------------------------
(* URLs as strings of characters: the constructor's normalisation of the
   base URLs, the URL request() builds and the rewrite on failover *)

\* config.baseURL entries, without and with a path prefix, a port, a trailing
\* slash
BaseURLConfigs ==
    { <<"h", "t", "t", "p", ":", "/", "/", "a">>,
      <<"h", "t", "t", "p", ":", "/", "/", "a", "/">>,
      <<"h", "t", "t", "p", "s", ":", "/", "/", "b">>,
      <<"h", "t", "t", "p", ":", "/", "/", "c", ":", "8">>,
      <<"h", "t", "t", "p", ":", "/", "/", "d", "/", "p">>,
      <<"h", "t", "t", "p", "s", ":", "/", "/", "e", "/", "p", "/", "q", "/">> }

\* request paths and serialised query strings
RequestPaths == { <<"/", "x">>, <<"/", "v", "/", "x">>, <<"/">> }
QueryStrings == { <<>>, <<"?", "k", "=", "v">> }

\* url.replace(/\/$/, "") in the constructor
StripTrailingSlash(url) ==
    IF Len(url) > 0 /\ url[Len(url)] = "/" THEN SubSeq(url, 1, Len(url) - 1) ELSE url

\* new URL(base + path) with the query appended, toString(): the inputs are
\* absolute URLs in normal form, which serialise as written
RequestUrl(base, path, query) == base \o path \o query

\* String.prototype.indexOf(ch, from): 0-based, -1 when absent
IndexOf(str, ch, from) ==
    LET hits == {i \in from .. (Len(str) - 1) : str[i + 1] = ch}
    IN IF hits = {} THEN -1 ELSE CHOOSE i \in hits : \A j \in hits : i <= j

\* String.prototype.substring(start): a negative start counts as 0
Substring(str, start) ==
    SubSeq(str, (IF start < 0 THEN 0 ELSE start) + 1, Len(str))

\* the URL of the attempt on the new gateway (http.ts lines 429-430)
FailoverUrl(url, newBase) == newBase \o Substring(url, IndexOf(url, "/", 8))

\* a request built on the gateway `from` fails over to the gateway `to`
RewriteUrl(from, to, path, query) ==
    /\ from # to
    /\ LET base == StripTrailingSlash(from)
           newBase == StripTrailingSlash(to)
           url == RequestUrl(base, path, query)
       IN call' = [op |-> "failover", pc |-> "settled", base |-> base,
                   newBase |-> newBase, path |-> path, query |-> query,
                   url |-> url, newUrl |-> FailoverUrl(url, newBase)]
    /\ UNCHANGED <<httpVars, authVars, subVars>>

----------------------------------------------------------------------------

\* the state after new HttpClient(config)
\* no presence options and handlers that return: what the specifications
\* that are not about subscriptions start with
Unsubscribed ==
    /\ presenceOptions = NoPresence
    /\ behaviour = [h \in Handlers |-> "returns"]

Constructed ==
    /\ currentURLIndex = 0
    /\ gatewayHealth = [g \in Gateways |-> Null]
    /\ apiKey = Undefined
    /\ jwt = Undefined
    /\ strategyApiKey = Undefined
    /\ strategyJwt = Undefined
    /\ auth = NewAuthClient(Undefined, Undefined)
    /\ call = NoCall
    /\ now = 0
    /\ req = [r \in Requests |-> IdleRequest]
    /\ lastFailover = <<>>
    /\ Subscribed

(* Concurrent request() calls against gateways of fixed behaviour, none of
   them outliving its timeout *)

Init == Constructed /\ gwMode \in FixedModes /\ Unsubscribed

Next ==
    \/ \E r \in Requests : Start(r)
    \/ \E r \in Requests : Respond(r)
    \/ \E r \in Requests : Wake(r)
    \/ Tick

Spec == Init /\ [][Next]_vars

FairSpec == Spec /\ \A r \in Requests : WF_vars(Respond(r)) /\ WF_vars(Wake(r))

(* One request() call at a time against gateways that answer each attempt in
   any way, with the abort timer *)

CallInit == Constructed /\ gwMode = AnyMode /\ Unsubscribed

\* request() called while no other call is in progress
StartAlone(r) == Start(r) /\ \A q \in Requests : ~Active(q)

CallNext ==
    \/ \E r \in Requests : StartAlone(r)
    \/ \E r \in Requests : Respond(r)
    \/ \E r \in Requests : Wake(r)
    \/ \E r \in Requests : AbortTimer(r)
    \/ Tick

CallSpec == CallInit /\ [][CallNext]_vars

(* Any sequence of credential setters on an HttpClient and on a
   PathBasedAuthStrategy *)

AuthInit == Constructed /\ gwMode = AnyMode /\ Unsubscribed

AuthNext ==
    \/ \E value \in Credentials : SetApiKey(value)
    \/ \E value \in Credentials : SetJwt(value)
    \/ \E value \in Credentials : StrategySetApiKey(value)
    \/ \E value \in Credentials : StrategySetJwt(value)

AuthSpec == AuthInit /\ [][AuthNext]_vars

(* An AuthClient: the application sets credentials and logs out, calling
   one method at a time *)

AuthClientInit ==
    /\ currentURLIndex = 0
    /\ gatewayHealth = [g \in Gateways |-> Null]
    /\ strategyApiKey = Undefined
    /\ strategyJwt = Undefined
    /\ now = 0
    /\ req = [r \in Requests |-> IdleRequest]
    /\ lastFailover = <<>>
    /\ gwMode = AnyMode
    /\ Unsubscribed
    /\ Subscribed
    /\ call = NoCall
    /\ \E key \in Credentials, token \in Credentials : AuthClientConstructed(key, token)

AuthClientNext ==
    \/ \E value \in Credentials \ {Undefined} : AuthSetApiKey(value)
    \/ \E value \in Credentials \ {Undefined} : AuthSetJwt(value)
    \/ LogoutStart
    \/ AuthClear
    \/ LogoutUserStart
    \/ LogoutUserPosted
    \/ \E outcome \in {"succeeded", "failed"} : LogoutPosted(outcome)
    \/ LogoutDone

AuthClientSpec == AuthClientInit /\ [][AuthClientNext]_vars

(* Error responses of every shape, thrown by request() and met by
   CacheClient.get *)

ErrorNext ==
    \/ \E response \in RawResponses : ThrowFromResponse(response)
    \/ \E outcome \in PostOutcomes : CacheGetCall(outcome)

ErrorSpec == CallInit /\ [][ErrorNext]_vars

(* getBinary calls, one at a time, against gateways of fixed behaviour *)

BinaryNext ==
    \/ GetBinaryStart
    \/ GetBinaryAbortTimer
    \/ GetBinaryRespond

BinarySpec == Init /\ [][BinaryNext]_vars

(* request() calls, one at a time, of the client with one base URL and
   onNetworkError *)

CallbackNext ==
    \/ \E configured \in BOOLEAN : CallbackStart(configured)
    \/ CallbackAbortTimer
    \/ CallbackRespond
    \/ CallbackWake

\* the one gateway answers in a fixed way or in any way
CallbackInit == Constructed /\ gwMode \in FixedModes \cup {AnyMode} /\ Unsubscribed

CallbackSpec == CallbackInit /\ [][CallbackNext]_vars

(* request() calls, one at a time, against gateways of fixed behaviour, with
   a clock that advances in steps shorter than the cooldown *)

HealthNext ==
    \/ \E r \in Requests : StartAlone(r)
    \/ \E r \in Requests : Respond(r)
    \/ \E r \in Requests : Wake(r)
    \/ ShortTick

HealthSpec == Init /\ [][HealthNext]_vars

(* CacheClient.get calls, one at a time, against gateways that hold the key
   or answer with a cache miss *)

CacheInit == Constructed /\ gwMode \in [Gateways -> {"ok", "miss"}] /\ Unsubscribed

CacheNext ==
    \/ \E r \in Requests : CacheGetStart(r)
    \/ \E r \in Requests : Respond(r)
    \/ \E r \in Requests : Wake(r)
    \/ \E r \in Requests : CacheGetSettle(r)
    \/ Tick

CacheSpec == CacheInit /\ [][CacheNext]_vars

(* The URL rewrite of a failover, for any pair of configured base URLs, any
   path and query *)

UrlNext ==
    \E from \in BaseURLConfigs, to \in BaseURLConfigs,
       path \in RequestPaths, query \in QueryStrings :
         RewriteUrl(from, to, path, query)

UrlSpec == CallInit /\ [][UrlNext]_vars

(* The retry policy asked about any error at any attempt index *)

PolicyNext ==
    \/ \E error \in PolicyErrors, attempt \in PolicyAttempts :
           PolicyShouldRetry(error, attempt)
    \/ \E attempt \in PolicyAttempts : PolicyGetDelay(attempt)

PolicySpec == CallInit /\ [][PolicyNext]_vars

(* One Subscription: handlers come and go, frames arrive, the subscription
   or the socket closes *)

SubInit ==
    /\ Constructed
    /\ gwMode = AnyMode
    /\ presenceOptions \in PresenceOptionsSet
    /\ behaviour \in {b \in Behaviours : \A h \in Handlers : b[h] # "closes"}

SubNext ==
    \/ \E handler \in Handlers : OnMessage(handler)
    \/ \E handler \in Handlers : OffMessage(handler)
    \/ \E handler \in Handlers : OnError(handler)
    \/ \E handler \in Handlers : OffError(handler)
    \/ \E handler \in Handlers : OnClose(handler)
    \/ \E handler \in Handlers : OffClose(handler)
    \/ \E frame \in Frames : Deliver(frame)
    \/ SocketError
    \/ SocketClose
    \/ Close

SubSpec == SubInit /\ [][SubNext]_vars

(* The life of one Subscription whose handlers may call close() *)

\* two data frames, a presence frame and a frame that is no JSON
LifeFrames ==
    {[NotAnEnvelope("object") EXCEPT !.data = "aGk=", !.topic = "room", !.timestamp = 1000],
     [NotAnEnvelope("object") EXCEPT !.type = "presence.join", !.member_id = "bob",
                                     !.topic = "room", !.timestamp = 1000],
     [NotAnEnvelope("object") EXCEPT !.data = "aGk=", !.topic = "room", !.timestamp = 1001],
     NotAnEnvelope("invalid")}

LifeInit ==
    /\ Constructed
    /\ gwMode = AnyMode
    /\ presenceOptions \in PresenceOptionsSet
    /\ behaviour \in Behaviours

LifeNext ==
    \/ \E handler \in Handlers : OnMessage(handler)
    \/ \E handler \in Handlers : OffMessage(handler)
    \/ \E handler \in Handlers : OnError(handler)
    \/ \E handler \in Handlers : OffError(handler)
    \/ \E handler \in Handlers : OnClose(handler)
    \/ \E handler \in Handlers : OffClose(handler)
    \/ \E frame \in LifeFrames : Deliver(frame)
    \/ SocketError
    \/ SocketClose
    \/ Close
    \/ GetPresence

LifeSpec == LifeInit /\ [][LifeNext]_vars

\* the event loop runs whatever is ready to run
LifeFairSpec == LifeSpec /\ WF_vars(LifeNext)

(* One WSClient used directly: it connects, times out, fails, closes and
   connects again *)

WsInit ==
    /\ currentURLIndex = 0
    /\ gatewayHealth = [g \in Gateways |-> Null]
    /\ apiKey = Undefined
    /\ jwt = Undefined
    /\ strategyApiKey = Undefined
    /\ strategyJwt = Undefined
    /\ auth = NewAuthClient(Undefined, Undefined)
    /\ call = NoCall
    /\ now = 0
    /\ req = [r \in Requests |-> IdleRequest]
    /\ lastFailover = <<>>
    /\ gwMode = AnyMode
    /\ presenceOptions = NoPresence
    /\ messageHandlers = <<>>
    /\ errorHandlers = <<>>
    /\ closeHandlers = <<>>
    /\ isClosed = FALSE
    /\ dispatch = NoDispatch
    /\ behaviour \in {b \in Behaviours : \A h \in Handlers : b[h] # "closes"}
    /\ \E callback \in BOOLEAN : ws = NewClient(callback)

WsNext ==
    \/ ClientConnect
    \/ ClientOpen
    \/ ClientTimeout
    \/ ClientError
    \/ ClientClosed
    \/ \E handler \in Handlers : ClientOnError(handler)
    \/ \E handler \in Handlers : ClientOffError(handler)
    \/ ClientClose

WsSpec == WsInit /\ [][WsNext]_vars

\* the socket and the timer of connect() deliver their events: a socket that
\* can open, fail or close does so, a timer that is armed fires
SocketEvent == ClientOpen \/ ClientTimeout \/ ClientError \/ ClientClosed

WsFairSpec == WsSpec /\ WF_vars(SocketEvent)

(* A client made by createClient: requests fail over between gateways that
   answer with a retryable status while the application subscribes and the
   socket fails, times out and closes *)

Created ==
    /\ currentURLIndex = 0
    /\ gatewayHealth = [g \in Gateways |-> Null]
    /\ apiKey = Undefined
    /\ jwt = Undefined
    /\ strategyApiKey = Undefined
    /\ strategyJwt = Undefined
    /\ auth = NewAuthClient(Undefined, Undefined)
    /\ call = NoCall
    /\ now = 0
    /\ req = [r \in Requests |-> IdleRequest]
    /\ lastFailover = <<>>
    /\ Unsubscribed
    /\ messageHandlers = <<>>
    /\ errorHandlers = <<>>
    /\ closeHandlers = <<>>
    /\ isClosed = FALSE
    /\ dispatch = NoDispatch
    /\ ws = NewClient(FALSE)

FailoverInit == Created /\ gwMode = [g \in Gateways |-> "retryable"]

FailoverNext ==
    \/ \E r \in Requests : StartAlone(r)
    \/ \E r \in Requests : Respond(r)
    \/ \E r \in Requests : Wake(r)
    \/ \E configured \in BOOLEAN : PubSubSubscribe(configured, NoPresence)
    \/ SubscribeOpened
    \/ ClientTimeout
    \/ ClientError
    \/ ClientClosed
    \/ Close

FailoverSpec == FailoverInit /\ [][FailoverNext]_vars

(* A client made by createClient: the application sets credentials and
   subscribes, again after the socket has closed *)

PubSubInit == Created /\ gwMode = AnyMode

PubSubNext ==
    \/ \E value \in Credentials : SetApiKey(value)
    \/ \E value \in Credentials : SetJwt(value)
    \/ \E configured \in BOOLEAN, presence \in PresenceOptionsSet :
           PubSubSubscribe(configured, presence)
    \/ SubscribeOpened
    \/ ClientTimeout
    \/ ClientClosed
    \/ Close

PubSubSpec == PubSubInit /\ [][PubSubNext]_vars

----------------------------------------------------------------------------
(* Claims about request / requestWithRetry *)

\* r's fetch settles in this step
Settles(r) == req[r].pc = "fetching" /\ req'[r].pc # "fetching"

\* request() is called in slot r in this step
Starts(r) == req[r].pc \in {"idle", "returned", "thrown"} /\ req'[r].pc = "fetching"

C2_FailoverReturnsSuccess ==
    [][\A r \in Requests :
         (/\ Settles(r)
          /\ req'[r].pc \in {"returned", "thrown"}
          /\ gwMode[req[r].startGw] = "retryable"
          /\ \E b \in Gateways : gwMode[b] = "ok"
          /\ \A g \in Gateways : gwMode[g] \in {"ok", "retryable"})
         => (/\ req'[r].pc = "returned"
             /\ gwMode[req[r].url] = "ok"
             /\ gatewayHealth'[req[r].startGw] # Null
             /\ gatewayHealth'[req[r].startGw] <= now + GatewayHealthCheckCooldownMs
             /\ currentURLIndex' = req[r].url)]_vars

\* the error thrown is the one the last attempt produced, as it was caught
ThrowsLastError(r) ==
    /\ req[r].error # NoError
    /\ req[r].last = "network" => req[r].error = FetchTypeError
    /\ req[r].last = "retryable" =>
          (req[r].error.kind = "SDKError" /\ req[r].error.httpStatus \in RetryableStatusCodes)

\* C3 (state part): a request makes at most N * (maxRetries+1) fetch
\* attempts, and one whose every attempt failed with a retryable status or at
\* network level ends by throwing the error of its last attempt
C3_Bounded ==
    \A r \in Requests :
        /\ req[r].total <= NumGateways * (MaxRetries + 1)
        /\ (Settled(r) /\ req[r].onlyFailing) => (req[r].pc = "thrown" /\ ThrowsLastError(r))

\* C3: when every configured gateway fails every attempt, request() always
\* terminates: it makes at most N * (maxRetries+1) attempts and then throws
\* the unwrapped error of the last attempt.
C3_AllFailTerminates ==
    /\ []C3_Bounded
    /\ \A r \in Requests :
          (Active(r) /\ \A g \in Gateways : gwMode[g] # "ok") ~> (req[r].pc = "thrown")

\* a request has thrown after trying every gateway, making the most attempts
C3_Witness ==
    \E r \in Requests :
        /\ req[r].pc = "thrown"
        /\ req[r].onlyFailing
        /\ req[r].total = NumGateways * (MaxRetries + 1)

\* C4: a non-2xx response with a status outside the retryable set is never
\* retried and never triggers failover: the request throws an SDKError with
\* that status at once and leaves gateway health and the active gateway
\* unchanged, whatever the message text of the error body.
C4_TerminalStatusThrown ==
    [][\A r \in Requests :
         (Settles(r) /\ req'[r].last = "terminal")
         => (/\ req'[r].pc = "thrown"
             /\ req'[r].error.kind = "SDKError"
             /\ req'[r].error.httpStatus \in Statuses \ (RetryableStatusCodes \cup {200})
             /\ gatewayHealth' = gatewayHealth
             /\ currentURLIndex' = currentURLIndex)]_vars

\* C5: when the timeout fires while an attempt is in flight, the failure is
\* treated as retryable: the request is retried on the same gateway while
\* attempts remain, instead of being thrown to the caller at once.
C5_TimeoutRetried ==
    [][\A r \in Requests :
         (Settles(r) /\ req[r].aborted /\ req[r].attempt < MaxRetries)
         => req'[r].pc = "retryWait"]_vars

\* C6: a gateway's unhealthyUntil is set only by a request that has itself
\* had an attempt fail against that gateway.
C6_MarksOwnFailures ==
    [][\A g \in Gateways :
         (gatewayHealth'[g] # gatewayHealth[g] /\ gatewayHealth'[g] # Null)
         => \E r \in Requests :
               Settles(r) /\ g \in req[r].failedOn \cup {req[r].url}]_vars

\* C7: after a request failed over from g1 to g2 and succeeded there, the
\* first attempt of every later request issued before g1's cooldown expires
\* is sent to g2, as long as g2 keeps succeeding.
C7_LaterRequestsUseNewGateway ==
    [][\A r \in Requests :
         (/\ Starts(r)
          /\ lastFailover # <<>>
          /\ gatewayHealth[lastFailover[1]] # Null
          /\ now < gatewayHealth[lastFailover[1]])
         => req'[r].url = lastFailover[2]]_vars

\* C8: when fetch fails before any response on every attempt, the error
\* thrown is an SDKError with httpStatus 0 and code NETWORK_ERROR.
C8_NetworkErrorTyped ==
    \A r \in Requests :
        (req[r].pc = "thrown" /\ req[r].onlyNetwork)
        => (/\ req[r].error.kind = "SDKError"
            /\ req[r].error.httpStatus = 0
            /\ req[r].error.code = "NETWORK_ERROR")

----------------------------------------------------------------------------
(* Claims about the auth headers *)

\* a path under the database, pub/sub, proxy or cache namespace
IsNamespacePath(path) ==
    \E name \in {"rqlite", "pubsub", "proxy", "cache"} : Includes(path, name)

\* the headers the rule table asks for
ExpectedHeaders(path, key, token) ==
    IF IsNamespacePath(path)
    THEN IF Truthy(key) THEN {<<"X-API-Key", key>>}
         ELSE IF Truthy(token) THEN {<<"Authorization", "Bearer " \o token>>}
         ELSE {}
    ELSE {<<"X-API-Key", key>> : k \in {key} \cap {c \in Credentials : Truthy(c)}}
            \cup {<<"Authorization", "Bearer " \o token>> :
                      t \in {token} \cap {c \in Credentials : Truthy(c)}}

\* C9: on a namespace path only X-API-Key is sent when an API key is set and
\* only Authorization: Bearer when just a token is set; on every other path
\* (auth paths included) each credential that is set is sent, independently;
\* after any sequence of setters, in HttpClient and PathBasedAuthStrategy.
C9_AuthHeaders ==
    \A path \in Paths :
        /\ GetAuthHeaders(path, apiKey, jwt) = ExpectedHeaders(path, apiKey, jwt)
        /\ StrategyGetHeaders(path, strategyApiKey, strategyJwt)
              = ExpectedHeaders(path, strategyApiKey, strategyJwt)

\* both credentials are set, in the client and in the strategy
C9_Witness ==
    /\ Truthy(apiKey) /\ Truthy(jwt)
    /\ Truthy(strategyApiKey) /\ Truthy(strategyJwt)
    /\ GetAuthHeaders(<<"v1", "rqlite", "query">>, apiKey, jwt) = {<<"X-API-Key", apiKey>>}

----------------------------------------------------------------------------
(* Claims about the Subscription *)

\* a data envelope with a string topic, a numeric timestamp and base64 data
WellFormedData(frame) ==
    /\ frame.json = "object"
    /\ frame.type = Undefined
    /\ frame.topic = "room"
    /\ frame.timestamp = 1000
    /\ frame.data = "aGk="

\* how often a callback was invoked for a handler with an argument
Invocations(callback, handler, arg) ==
    Cardinality({i \in DOMAIN dispatch.calls :
                     dispatch.calls[i] = [callback |-> callback,
                                          handler |-> handler, arg |-> arg]})

\* the callbacks of a kind invoked, however often
Invoked(callback) ==
    {i \in DOMAIN dispatch.calls : dispatch.calls[i].callback = callback}

\* the handlers in a handler set
Registered(set) == {set[i] : i \in DOMAIN set}

\* C10: a well-formed data envelope invokes every registered message handler
\* exactly once and no presence callback; a presence.join (presence.leave)
\* envelope with a member_id invokes exactly the onJoin (onLeave) callback,
\* with {memberId: member_id, joinedAt: timestamp, meta}, and never a
\* message handler.
C10_FrameDemultiplexing ==
    LET frame == dispatch.frame
        member == [memberId |-> frame.member_id, joinedAt |-> frame.timestamp,
                   meta |-> frame.meta]
        message == [topic |-> frame.topic, data |-> "hi",
                    timestamp |-> frame.timestamp]
    IN dispatch.event = "message" =>
        /\ WellFormedData(frame) =>
              /\ \A handler \in Registered(messageHandlers) :
                     Invocations("onMessage", handler, message) = 1
              /\ Cardinality(Invoked("onMessage"))
                     = Cardinality(Registered(messageHandlers))
              /\ Invoked("onJoin") = {} /\ Invoked("onLeave") = {}
        /\ (frame.type = "presence.join" /\ frame.member_id = "bob"
                /\ presenceOptions.onJoin # Undefined) =>
              /\ Invocations("onJoin", 0, member) = 1
              /\ Cardinality(Invoked("onJoin")) = 1
              /\ Invoked("onLeave") = {} /\ Invoked("onMessage") = {}
        /\ (frame.type = "presence.leave" /\ frame.member_id = "bob"
                /\ presenceOptions.onLeave # Undefined) =>
              /\ Invocations("onLeave", 0, member) = 1
              /\ Cardinality(Invoked("onLeave")) = 1
              /\ Invoked("onJoin") = {} /\ Invoked("onMessage") = {}

\* a frame was handed to wsMessageHandler in the last step
FrameProcessed == dispatch.event = "message" /\ ws.listening

\* every registered error handler was called once, with the error
ErrorHandlersNotified ==
    \A handler \in Registered(errorHandlers) :
        Invocations("onError", handler, [error |-> TRUE]) = 1

IsPresence(frame) == frame.type \in {"presence.join", "presence.leave"}

\* a frame that is no JSON object, lacks a required field, or carries data
\* that is no base64
Malformed(frame) ==
    \/ frame.json # "object"
    \/ frame.topic = Undefined
    \/ frame.timestamp = Null
    \/ IsPresence(frame) /\ frame.member_id = Undefined
    \/ ~IsPresence(frame) /\ frame.data \in {Undefined, "!!!"}

\* C11: every inbound frame that fails validation, JSON parsing or base64
\* decoding - a presence frame without member_id, string topic or numeric
\* timestamp included - is reported to the registered error handlers, is
\* delivered to no message or presence handler, and leaves the connection
\* open.
C11_MalformedReported ==
    (FrameProcessed /\ Malformed(dispatch.frame)) =>
        /\ ErrorHandlersNotified
        /\ Invoked("onMessage") = {}
        /\ Invoked("onJoin") = {} /\ Invoked("onLeave") = {}
        /\ IsConnected

\* C12: a non-presence frame is dispatched to the message handlers exactly
\* when its topic is a string, its timestamp is a number and its data is a
\* string the publish path can produce (the encoding of the empty payload
\* included); every other non-presence frame goes to the error handlers.
C12_DataDispatchedIffValid ==
    LET frame == dispatch.frame
        valid == /\ frame.topic # Undefined
                 /\ frame.timestamp # Null
                 /\ frame.data \in {"", "aGk="}
    IN (/\ FrameProcessed
        /\ frame.json = "object" /\ ~IsPresence(frame)
        /\ frame.data # "!!!"
        /\ messageHandlers # <<>> /\ errorHandlers # <<>>)
       => IF valid
          THEN Invoked("onMessage") # {}
          ELSE Invoked("onMessage") = {} /\ Invoked("onError") # {}

\* C13: a frame that is not valid JSON invokes the registered error handlers,
\* does not throw out of wsMessageHandler, invokes no message handler and
\* leaves isConnected() true.
C13_InvalidJsonReported ==
    (FrameProcessed /\ dispatch.frame.json = "invalid") =>
        /\ ErrorHandlersNotified
        /\ ~dispatch.uncaught
        /\ Invoked("onMessage") = {}
        /\ IsConnected

\* C14: after Subscription.close() has returned, no message, error, close or
\* presence callback of the subscription is invoked again, whatever arrives:
\* frames, socket errors, or the socket's own close event.
C14_NoCallbackAfterClose ==
    [][isClosed => dispatch'.calls = <<>>]_vars

\* the socket's close event has arrived after close()
C14_Witness ==
    /\ isClosed
    /\ dispatch.event = "close"
    /\ ws.readyState = "CLOSED"

\* C15: a second or later close() is a no-op: it throws nothing, leaves the
\* subscription and its handler sets as they are, does not close the socket
\* again and invokes no handler.
C15_CloseIdempotent ==
    [][(isClosed /\ dispatch'.event = "close()") =>
          /\ UNCHANGED <<isClosed, messageHandlers, errorHandlers, closeHandlers, ws>>
          /\ dispatch'.calls = <<>>
          /\ ~dispatch'.uncaught]_vars

\* close() has been called on a closed subscription that had been given a
\* handler after the first close()
C15_Witness ==
    /\ isClosed
    /\ dispatch.event = "close()"
    /\ ws.closes = 1
    /\ messageHandlers # <<>>

\* C16: when a handler calls close() while an event is dispatched, no handler
\* is invoked after it for that event, and the subscription is left closed,
\* without handlers and off the WSClient, so that no later event reaches one.
C16_CloseInsideHandler ==
    \A i \in DOMAIN dispatch.calls :
        (dispatch.calls[i].handler \in Handlers /\ HandlerCloses(dispatch.calls[i].handler))
        => /\ i = Len(dispatch.calls)
           /\ isClosed /\ ~ws.listening
           /\ messageHandlers = <<>> /\ errorHandlers = <<>> /\ closeHandlers = <<>>

\* a message handler has called close() while a data frame was dispatched
C16_Witness ==
    /\ dispatch.event = "message"
    /\ WellFormedData(dispatch.frame)
    /\ Invoked("onMessage") # {}
    /\ HandlerCloses(dispatch.calls[Len(dispatch.calls)].handler)
    /\ isClosed

\* C17: when the network closes the connection of an open subscription (no
\* close() call), every registered close handler is invoked exactly once,
\* and a close() made afterwards invokes none of them.
C17_CloseHandlersOnce ==
    /\ (dispatch.event = "close" /\ ws.listening) =>
          /\ \A handler \in Registered(closeHandlers) :
                 Invocations("onClose", handler, [error |-> FALSE]) = 1
          /\ Len(dispatch.calls) = Cardinality(Registered(closeHandlers))
    /\ dispatch.event = "close()" => dispatch.calls = <<>>

\* the Message a data frame is decoded to
MessageOf(frame) ==
    [topic |-> frame.topic, data |-> "hi", timestamp |-> frame.timestamp]

\* C20: frames are processed one at a time in arrival order: the handlers
\* called when the k-th frame arrives are called for that frame, each at most
\* once, before the next frame arrives.
C20_ArrivalOrder ==
    [][dispatch'.seq # dispatch.seq =>
          /\ dispatch'.seq = dispatch.seq + 1
          /\ \A i \in DOMAIN dispatch'.calls :
                dispatch'.calls[i].callback = "onMessage" =>
                    /\ dispatch'.frame.type = Undefined
                    /\ dispatch'.calls[i].arg = MessageOf(dispatch'.frame)
                    /\ \A j \in DOMAIN dispatch'.calls :
                          dispatch'.calls[j] = dispatch'.calls[i] => j = i]_vars

\* the second frame to arrive has been handed to two message handlers
C20_Witness ==
    /\ dispatch.seq = 2
    /\ dispatch.frame.timestamp = 1001
    /\ Cardinality(Invoked("onMessage")) = 2

----------------------------------------------------------------------------
(* Claims about the life cycle of a WSClient *)

\* the channel has been closed: by close() of the subscription or of the
\* WSClient, or by the network
ChannelClosed == isClosed \/ ws.isClosed \/ ws.readyState = "CLOSED"

\* C18: Closed is terminal.  Once a subscription or its WSClient has been
\* closed, by close() or by a network close, no operation puts it back into
\* Connecting or Open, and isConnected() is false in every later state.
C18_ClosedIsTerminal ==
    [][ChannelClosed =>
          /\ ChannelClosed'
          /\ ws'.readyState \notin {"CONNECTING", "OPEN"} \/ ws'.isClosed
          /\ ~WsIsConnected'
          /\ ~IsConnected']_vars

\* the timeout of connect() has fired: the half-open socket is closed and
\* connect() rejects with the WS_TIMEOUT error
TimeoutRejects ==
    dispatch.event = "timeout" =>
        /\ ws.closes > 0
        /\ ws.readyState \in {"CLOSING", "CLOSED"}
        /\ ws.promise = "rejected"
        /\ ws.reason = WsTimeoutError
        /\ ws.reason.httpStatus = 408 /\ ws.reason.code = "WS_TIMEOUT"

\* C19: when the socket has not opened within the connection timeout, the
\* half-open socket is closed, connect() rejects with the SDKError
\* WS_TIMEOUT / 408, and every registered error handler is notified of that
\* error, as it is of any other socket error.
C19_TimeoutRaisesError ==
    /\ TimeoutRejects
    /\ dispatch.event = "timeout" =>
           \A i \in DOMAIN ws.errorHandlers :
               \E c \in DOMAIN dispatch.calls :
                   /\ dispatch.calls[c].callback = "onError"
                   /\ dispatch.calls[c].handler = ws.errorHandlers[i]
                   /\ dispatch.calls[c].arg = WsTimeoutError

----------------------------------------------------------------------------
(* Claims about presence, credentials and the WebSocket URL *)

\* C21: getPresence() on a subscription opened without presence fails with
\* the usage error and sends no HTTP request, whatever the state of the
\* subscription (open, closed by close(), closed by the network).
C21_GetPresenceNeedsPresence ==
    (dispatch.event = "getPresence()" /\ presenceOptions = NoPresence) =>
        /\ dispatch.result = PresenceNotEnabled
        /\ dispatch.request = ""
        /\ dispatch.calls = <<>>

C21_Witness ==
    /\ dispatch.event = "getPresence()"
    /\ presenceOptions = NoPresence
    /\ isClosed
    /\ dispatch.result = PresenceNotEnabled

\* C22: no failover for subscriptions.  The URL subscribe() connects to is
\* the configured wsURL or the one of the first gateway, whatever gateway the
\* HttpClient has failed over to, and no step of the WebSocket (subscribe,
\* open, error, timeout, close) changes the health of a gateway or the index
\* of the active one.
WebSocketStep == ws' # ws \/ dispatch' # dispatch \/ isClosed' # isClosed

ClosedUnexpectedly == ~isClosed /\ ws.listening /\ ws.readyState = "CLOSED"

\* C23: automatic reconnection.  After the connection of an open
\* subscription is closed unexpectedly, the subscription is eventually
\* connected again without a new subscribe().
C23_ReconnectsAutomatically == ClosedUnexpectedly ~> IsConnected

\* the credential the WebSocket is to carry: the API key when one is set,
\* otherwise the bearer token
WsCredential ==
    IF Truthy(apiKey) THEN apiKey ELSE IF Truthy(jwt) THEN jwt ELSE Undefined

\* C24: subscribe() authenticates the WebSocket with one query parameter.  It
\* carries the API key when one is set and otherwise the bearer token, is
\* named api_key when the credential starts with "ak_" and token otherwise,
\* and is left out when no credential is set.
C24_WebSocketAuthParameter ==
    [][dispatch'.event = "subscribe()" /\ ws'.connects # ws.connects =>
          ws'.url.auth =
              IF WsCredential = Undefined THEN NoAuthParam
              ELSE [name |-> IF StartsWithAk(WsCredential) THEN "api_key" ELSE "token",
                    value |-> WsCredential]]_vars

\* C25: getToken() returns the most recently set credential.  After
\* AuthClient.setApiKey(k) it returns k and after AuthClient.setJwt(j) it
\* returns j, whatever credentials were set before.
C25_GetTokenReturnsLastSet ==
    auth.call \in {"setApiKey", "setJwt"} => AuthGetToken = auth.arg

\* C26: after logout() has completed, getToken() is undefined and no
\* request carries an API key or a bearer token, whether the logout request
\* succeeded, failed or was not sent.
C26_LogoutClearsCredentials ==
    (auth.call = "logout" /\ auth.pc = "idle") =>
        /\ AuthGetToken = Undefined
        /\ \A path \in Paths : GetAuthHeaders(path, apiKey, jwt) = {}

C26_Witness ==
    /\ auth.call = "logout" /\ auth.pc = "idle" /\ auth.arg = "failed"
    /\ AuthGetToken = Undefined

----------------------------------------------------------------------------
(* Claims about error responses, CacheClient.get, getBinary and
   onNetworkError *)

\* the gateway reports a cache miss: HTTP 404, or HTTP 500 with a message
\* that contains "key not found" in any case of letters
ReportsCacheMiss(error) ==
    /\ error.kind = "SDKError"
    /\ \/ error.httpStatus = 404
       \/ /\ error.httpStatus = 500
          /\ error.message \in {"key not found", "Cache: Key Not Found"}

\* C27: CacheClient.get returns null when the gateway reports a cache miss
\* (HTTP 404, or HTTP 500 whose message contains "key not found") and
\* throws every other failure again, unchanged.
C27_CacheMissIsNull ==
    (call.op = "cache.get" /\ call.outcome.kind = "thrown") =>
        IF ReportsCacheMiss(call.outcome.error)
        THEN call.result.kind = "null"
        ELSE call.result = [kind |-> "throw", error |-> call.outcome.error]

C27_Witness ==
    /\ call.op = "cache.get"
    /\ call.outcome.kind = "thrown"
    /\ call.outcome.error.httpStatus = 500
    /\ call.outcome.error.message = "Cache: Key Not Found"
    /\ call.result.kind = "null"

\* C28: getBinary retries and fails over as request() does.  Before it
\* throws the error of a retryable status it has tried the gateway
\* MaxRetries + 1 times and, with more than one gateway, has failed over.
C28_GetBinaryRetriesAndFailsOver ==
    (call.op = "getBinary" /\ call.pc = "thrown" /\ IsRetryableError(call.error)) =>
        /\ call.attempts >= MaxRetries + 1
        /\ NumGateways > 1 => gatewayHealth[call.url] # Null

\* C29: the SDKError of a response that is not ok has the status of the
\* response as httpStatus, the code field of the body or HTTP_<status> as
\* code, and the error field of the body or, when that field is absent or
\* the body is no JSON, the status text of the response as message.
C29_ErrorFromResponse ==
    (call.op = "request" /\ call.pc = "thrown") =>
        LET response == call.response
            absent(field) == response.json # "object" \/ field \in {Undefined, ""}
        IN /\ call.error.kind = "SDKError"
           /\ call.error.httpStatus = response.status
           /\ call.error.code =
                  IF absent(response.code) THEN HttpCode(response.status)
                  ELSE response.code
           /\ call.error.message =
                  IF absent(response.error) THEN response.statusText
                  ELSE response.error

\* what onNetworkError is for: no response was received
NetworkFailure(error) == error.kind \in {"TypeError", "AbortError"}

\* C30: onNetworkError is invoked only for network errors and only when no
\* retry is left, exactly once per failed request(): never for a request
\* that succeeds, never between retries.
C30_OnNetworkErrorOnlyForNetworkErrors ==
    call.op = "request()" =>
        /\ call.pc # "thrown" => call.callbacks = <<>>
        /\ Len(call.callbacks) <= 1
        /\ call.callbacks # <<>> =>
              /\ NetworkFailure(call.error)
              /\ ~ShouldRetry(call.error, call.attempt)
        /\ (call.pc = "thrown" /\ NetworkFailure(call.error) /\ call.onNetworkError)
              => Len(call.callbacks) = 1

----------------------------------------------------------------------------
(* Claims about the retry policy, gateway health and failover *)

\* C31: the retry decision is the same pure function everywhere: for every
\* error and attempt index, ExponentialBackoffRetryPolicy.shouldRetry and the
\* inline decision of HttpClient.requestWithRetry both answer true exactly
\* when attempt < maxRetries and the error carries a retryable status.
C31_RetryDecisionIsOneFunction ==
    call.op = "shouldRetry" =>
        /\ call.result = ShouldRetry(call.error, call.attempt)
        /\ call.result = (/\ call.attempt < MaxRetries
                          /\ call.error.httpStatus \in RetryableStatusCodes)

\* the policy has been asked about a retryable error at the last attempt
\* index that is retried
C31_Witness ==
    /\ call.op = "shouldRetry"
    /\ call.error.httpStatus = 503
    /\ call.attempt = MaxRetries - 1
    /\ call.result = TRUE

\* a step in which markGatewayUnhealthy has set the unhealthyUntil of g
Marks(g) ==
    /\ gatewayHealth'[g] # gatewayHealth[g]
    /\ gatewayHealth'[g] = now + GatewayHealthCheckCooldownMs

\* g is in its cooldown window according to the map health
InCooldown(health, g) == health[g] # Null /\ now < health[g]

\* C32: gateway health is a two-state machine with lazy self-healing.  The
\* unhealthyUntil of a gateway changes only to now + cooldown (it is marked)
\* or to null when it has passed (a health check found it expired); a
\* gateway the health check answers true for - the one failover moves to -
\* was not in its cooldown window and has unhealthyUntil null afterwards; and
\* when the check answers false for every candidate, all of them are in
\* their cooldown window.
C32_HealthSelfHeals ==
    [][/\ \A g \in Gateways :
            gatewayHealth'[g] # gatewayHealth[g] =>
               \/ Marks(g)
               \/ /\ gatewayHealth'[g] = Null
                  /\ now >= gatewayHealth[g]
       /\ currentURLIndex' # currentURLIndex =>
            /\ gatewayHealth'[currentURLIndex'] = Null
            /\ ~InCooldown(gatewayHealth, currentURLIndex')
       /\ \A r \in Requests :
            (Settles(r) /\ req'[r].pc = "thrown" /\ \E g \in Gateways : Marks(g)) =>
               \A g \in Gateways \ {currentURLIndex} : InCooldown(gatewayHealth', g)]_vars

\* gateway 0 was marked at time 0, its cooldown has passed, and a failover
\* from gateway 2 has found it healthy again and cleared its unhealthyUntil
C32_Witness ==
    /\ now = GatewayHealthCheckCooldownMs
    /\ currentURLIndex = 0
    /\ gatewayHealth[0] = Null
    /\ gatewayHealth[1] = GatewayHealthCheckCooldownMs
    /\ gatewayHealth[2] = now + GatewayHealthCheckCooldownMs

\* the k-th gateway after g in round-robin order
After(g, k) == (g + k) % NumGateways

\* the error thrown is the one of the attempt that settled last
ThrowsOriginalError(r) ==
    CASE req'[r].last = "retryable" -> IsRetryableError(req'[r].error)
      [] req'[r].last = "network" -> req'[r].error = FetchTypeError
      [] req'[r].last = "abort" -> req'[r].error.kind = "AbortError"
      [] req'[r].last = "terminal" ->
            req'[r].error.kind = "SDKError" /\ ~IsRetryableError(req'[r].error)
      [] OTHER -> FALSE

\* C33: moveToNextGateway makes active the first gateway after the current
\* index, in round-robin order, that is healthy: never the current one, never
\* one in its cooldown window, and every gateway it passed over is in its
\* cooldown window.  When no other gateway is healthy the active index stays
\* and the caller throws the error of the failed attempt.
C33_MovesToFirstHealthy ==
    [][/\ currentURLIndex' # currentURLIndex =>
            \E k \in 1 .. (NumGateways - 1) :
               /\ currentURLIndex' = After(currentURLIndex, k)
               /\ ~InCooldown(gatewayHealth', currentURLIndex')
               /\ \A j \in 1 .. (k - 1) :
                     InCooldown(gatewayHealth', After(currentURLIndex, j))
       /\ \A r \in Requests :
            (Settles(r) /\ req'[r].pc = "thrown" /\ \E g \in Gateways : Marks(g)) =>
               /\ currentURLIndex' = currentURLIndex
               /\ \A k \in 1 .. (NumGateways - 1) :
                     InCooldown(gatewayHealth', After(currentURLIndex, k))
               /\ ThrowsOriginalError(r)]_vars

\* a failover from gateway 2 has passed over gateway 0, which is in its
\* cooldown window, and made gateway 1 active
C33_Witness ==
    /\ currentURLIndex = 1
    /\ InCooldown(gatewayHealth, 0)
    /\ \E r \in Requests :
          /\ req[r].pc = "failoverWait"
          /\ req[r].from = 2
          /\ req[r].url = 1

\* C34: whenever request() starts while some gateway is healthy, its first
\* attempt is sent to a healthy gateway: the active gateway is not one still
\* in its cooldown window while another gateway is healthy.
C34_StartsOnHealthyGateway ==
    [][\A r \in Requests :
         (Starts(r) /\ \E g \in Gateways : ~InCooldown(gatewayHealth, g))
         => ~InCooldown(gatewayHealth, req'[r].url)]_vars

\* the attempt of r that settles in this step was rejected by fetch before
\* any response: connection failure or timeout
RejectedBeforeResponse(r) == Settles(r) /\ req'[r].last \in {"network", "abort"}

\* C35: a network-level failure (fetch rejects before any response) is never
\* retried on the same gateway.  While the pass through the gateways is not
\* over, the gateway is marked unhealthy and the request fails over after
\* that single attempt (or is thrown when no other gateway is healthy); on
\* the last gateway of the pass it is thrown after that one attempt with the
\* health of the gateways left unchanged.
C35_NetworkFailureNotRetried ==
    [][\A r \in Requests :
         RejectedBeforeResponse(r) =>
            /\ req'[r].pc # "retryWait"
            /\ IF req[r].gatewayAttempt < NumGateways - 1
               THEN /\ gatewayHealth'[req[r].url] = now + GatewayHealthCheckCooldownMs
                    /\ \/ req'[r].pc = "failoverWait"
                       \/ /\ req'[r].pc = "thrown"
                          /\ \A g \in Gateways \ {currentURLIndex} :
                                InCooldown(gatewayHealth', g)
               ELSE /\ req'[r].pc = "thrown"
                    /\ gatewayHealth' = gatewayHealth]_vars

\* the same for the rejections that are not timeouts
C35_ConnectionFailureNotRetried ==
    [][\A r \in Requests :
         (RejectedBeforeResponse(r) /\ req'[r].last = "network") =>
            /\ req'[r].pc # "retryWait"
            /\ IF req[r].gatewayAttempt < NumGateways - 1
               THEN /\ gatewayHealth'[req[r].url] = now + GatewayHealthCheckCooldownMs
                    /\ \/ req'[r].pc = "failoverWait"
                       \/ /\ req'[r].pc = "thrown"
                          /\ \A g \in Gateways \ {currentURLIndex} :
                                InCooldown(gatewayHealth', g)
               ELSE /\ req'[r].pc = "thrown"
                    /\ gatewayHealth' = gatewayHealth]_vars

----------------------------------------------------------------------------
(* Claims about listeners, connect(), cache misses, URLs and timers *)

\* C36: registered listeners are independent: when a message handler throws
\* while a well-formed data frame is dispatched, every other registered
\* message handler still receives the Message, and no error handler is
\* invoked for the frame.
C36_ListenersIndependent ==
    LET frame == dispatch.frame
        message == [topic |-> frame.topic, data |-> "hi",
                    timestamp |-> frame.timestamp]
    IN (/\ FrameProcessed
        /\ WellFormedData(frame)
        /\ \E handler \in Registered(messageHandlers) : HandlerThrows(handler)) =>
           /\ \A handler \in Registered(messageHandlers) :
                  Invocations("onMessage", handler, message) = 1
           /\ Invoked("onError") = {}

\* the promise returned by the last connect() has not settled
ConnectPending == ws.promise = "pending"

\* C37: every call to WSClient.connect() eventually settles: whatever the
\* socket does (open, error, close, timer expiry), the promise does not stay
\* pending forever.
C37_ConnectSettles == ConnectPending ~> ~ConnectPending

\* C38: a cache miss is not a gateway failure: a CacheClient.get call that
\* returns null was answered after a single fetch attempt, without retries
\* or failover, and has left the health of every gateway and the active
\* gateway as it found them.
C38_CacheMissLeavesGateways ==
    (call.op = "cache.get" /\ call.pc = "settled" /\ call.result.kind = "null") =>
        /\ call.attempts = 1
        /\ gatewayHealth = call.health
        /\ currentURLIndex = call.index

\* C39: on failover the request is repeated against the new gateway with the
\* same path: the URL of the retried attempt is the new gateway's base
\* address followed by the original request path and query string, for
\* every configured base address, including one with a path prefix.
C39_FailoverKeepsPath ==
    call.op = "failover" =>
        call.newUrl = RequestUrl(call.newBase, call.path, call.query)

\* the same when the gateway the request fails over from has no path prefix
C39_FailoverKeepsPathWithoutPrefix ==
    (call.op = "failover" /\ IndexOf(call.base, "/", 8) = -1) =>
        call.newUrl = RequestUrl(call.newBase, call.path, call.query)

\* no timer of a settled request() call is pending
RequestTimersCleared ==
    \A r \in Requests : Settled(r) => ~req[r].timer

\* C40: the timeout timer armed by a call to request(), uploadFile() or
\* getBinary() is cancelled on every path by which the call returns or
\* throws: no timer of a settled call is still pending.
C40_TimersCleared ==
    /\ RequestTimersCleared
    /\ (call.op = "getBinary" /\ call.pc \in {"returned", "thrown"}) => ~call.timer

====
